---- MODULE Spec2Model ----
(***************************************************************************)
(* Swictation daemon: audio capture -> VAD segmentation -> transcription   *)
(* worker -> text injection, the command channel, and the memory pressure  *)
(* manager.  Modelled from src/src/swictationd.py, src/src/audio_capture.py *)
(* and src/src/memory_manager.py.                                          *)
(*                                                                         *)
(* Threads of the program and their actions here:                          *)
(*   IPC thread (_ipc_loop)          Ipc*                                  *)
(*   capture thread (_audio_callback) AudioCallback                        *)
(*   streaming worker (_process_vad_segment)  Vad*                         *)
(*   batch worker (_process_audio)            Batch*                       *)
(*   memory monitor (_monitoring_loop)        Monitor*                     *)
(* Durations are kept in samples (frames) so that frames / sample_rate is  *)
(* exact; percentages of GPU memory are integers 0..100.                   *)
(***************************************************************************)
EXTENDS Integers, Sequences, FiniteSets, TLC

(* ---- bounds of the model ---- *)
Blocksize == 8000        \* samples per capture callback (AudioCapture.blocksize)
MaxBlocks == 6           \* capture callbacks per recording session
MaxThreads == 2          \* worker threads that can exist at the same time
MaxLen == 3               \* longest transcript, in characters
MaxApply == 3             \* transcripts applied after a reset
MaxStream == 9            \* blocks handed to _on_audio_chunk in one session
MaxCapBlocks == 61        \* blocks of a session in which the VAD never says silence
ChunkFrames == 2          \* AudioCapture.chunk_frames, in samples
MaxBufferSamples == 4     \* AudioCapture.max_buffer_samples
MaxFrames == 3            \* most samples in one callback
MaxPushed == 6            \* samples pushed between start() and stop()
MaxTokens == 3            \* characters and key markers in one transformed text
MaxCommands == 3         \* commands accepted on the socket in one run
MaxPercent == 100        \* usage samples are whole percents up to this
MaxReports == 4          \* consecutive errors reported to handle_cuda_error
MaxLifeBlocks == 3       \* audio callbacks per session when the monitor runs too

(* ---- program constants ---- *)
SampleRate == 16000
VadWindowMs == 512
MinSegmentMs == 1000
MaxCudaErrors == 3
WarningThreshold == 80
CriticalThreshold == 90
EmergencyThreshold == 95
ShutdownCeiling == 98
RestoreThreshold == 60
BufferDurationMs == 30000
RecoveredBelow == 80

Models == {"stt_model", "vad_model"}
DaemonStates == {"idle", "recording", "processing", "error"}
Commands == {"toggle", "status", "stop", "bogus"}
Levels == {"normal", "warning", "critical", "emergency"}
SilenceDurations == {500}    \* configured silence_duration, in ms
\* representative usage samples (percent of GPU memory allocated)
Usage == {50, 70, 85, 92, 96, 99}

VARIABLES
  streaming_mode,      \* SwictationDaemon.streaming_mode (fixed at construction)
  silence_duration,    \* SwictationDaemon.silence_duration, ms (fixed)
  state,               \* SwictationDaemon.state
  running,             \* SwictationDaemon.running
  ipc_pc,              \* position of the IPC thread inside _handle_command
  current_state,       \* toggle_recording's local current_state ("none" outside)
  response,            \* last response sent on the socket
  nresponses,          \* responses sent on the socket so far
  ncommands,           \* commands accepted so far
  command,             \* action of the command last accepted by _handle_command
  is_recording,        \* AudioCapture.is_recording
  on_audio_callback,   \* AudioCapture.on_audio_callback is set
  total_frames,        \* AudioCapture.total_frames == len(AudioCapture.buffer)
  streaming_buffer,    \* len(SwictationDaemon._streaming_buffer)
  silence_frames,      \* SwictationDaemon._silence_duration * sample_rate
  speech_detected,     \* SwictationDaemon._speech_detected
  streaming_thread,    \* SwictationDaemon._streaming_thread (0 = None)
  tpc, tkind, tseg,    \* worker threads: position, kind, segment carried
  nseg,                \* segment boundaries detected so far
  dispatched,          \* boundaries handed to a worker, in order
  dropped,             \* boundaries whose buffer was cleared without a worker
  injected,            \* segments whose text reached the injector, in order
  last_pressure_level, \* MemoryManager.last_pressure_level
  gpu_models,          \* MemoryManager.gpu_models (keys)
  offloaded_models,    \* MemoryManager.offloaded_models (keys)
  device,              \* where each model's parameters are ("gpu"/"cpu")
  cuda_error_count,    \* MemoryManager.cuda_error_count
  fallback,            \* handle_cuda_error has returned False (fall back to CPU)
  mm_pc,               \* position of the monitor thread
  mm_moving,           \* models the monitor thread is moving right now
  last_usage,          \* usage (percent) in the monitoring loop's latest sample
  last_inject,         \* SwictationDaemon._last_injected
  emitted,             \* the strings TextInjector.inject received, in order
  latest,              \* last transcript handed to _inject_streaming_delta
  mono,                \* every transcript since the reset extended the one before
  napplied,            \* calls of _inject_streaming_delta since the reset
  latest_nonblank,     \* last transcript applied that was not blank
  stream,              \* what each block handed to _on_audio_chunk really held
  verdicts,            \* the VAD verdict of each block ("none": VAD not run)
  boundary_at,         \* the blocks (by index in stream) at which a boundary fired
  callback_ran_vad,    \* the last capture callback ran _detect_speech_vad itself
  buffer,              \* AudioCapture.buffer (deque with maxlen), as samples
  chunk_buffer,        \* AudioCapture._chunk_buffer
  on_chunk_ready,      \* AudioCapture.on_chunk_ready is set
  pushed,              \* the samples handed to the callback since start()
  delivered,           \* the chunks on_chunk_ready received since start()
  returned,            \* what the matching stop() returned
  inj_text,            \* transformed_text of the last _inject_text_with_keys call
  inj_outcomes,        \* what the text injector did with each piece offered
  inj_attempted,       \* the pieces handed to the text injector, in order
  inj_result,          \* the value _inject_text_with_keys returned
  main_pc,             \* position of the main thread in start() / stop()
  mm_running,          \* MemoryManager.running
  broadcaster_running, \* MetricsBroadcaster.running
  socket_open,         \* SwictationDaemon.server_socket is open
  socket_file,         \* the file at socket_path exists
  signalled,           \* main()'s signal_handler has run
  left_behind,         \* the last _start_recording found state of an earlier session
  mm_log,              \* what the monitor did for the last sample, in order
  cuda_seen,           \* handle_cuda_error calls since the last successful call
  cuda_ret,            \* what the last handle_cuda_error call returned
  classified,          \* the last get_memory_status call: thresholds, usage, level
  chunk_lock,          \* AudioCapture._chunk_buffer_lock: "free" or its holder
  cb_pc,               \* where the capture thread is in _audio_callback
  last_size,           \* what the last get_chunk_buffer_size call returned
  transcription_buffer, \* MetricsBroadcaster.transcription_buffer
  clients,             \* the listener is in MetricsBroadcaster.clients
  received,            \* the events the listener's socket was sent, in order
  acc_pc,              \* where the accept thread is in _accept_clients
  replay,              \* the list the catch-up loop iterates and its index
  bc_call,             \* the start_session / add_transcription call under way
  session_id,          \* the session last started
  nadded               \* add_transcription calls so far

daemon_vars == <<streaming_mode, silence_duration, state, running, ipc_pc,
                 current_state, response, nresponses, ncommands, command, is_recording,
                 on_audio_callback, total_frames, streaming_buffer,
                 silence_frames, speech_detected, streaming_thread, tpc, tkind,
                 tseg, nseg, dispatched, dropped, injected>>
mem_vars == <<last_pressure_level, gpu_models, offloaded_models, device,
              cuda_error_count, fallback, mm_pc, mm_moving, last_usage>>
delta_vars == <<last_inject, emitted, latest, mono, napplied,
                latest_nonblank>>
seg_vars == <<stream, verdicts, boundary_at>>
cap_vars == <<buffer, chunk_buffer, on_chunk_ready, pushed, delivered,
              returned>>
inj_vars == <<inj_text, inj_outcomes, inj_attempted, inj_result>>
life_vars == <<main_pc, mm_running, broadcaster_running, socket_open,
               socket_file, signalled>>
obs3_vars == <<chunk_lock, cb_pc, last_size>>
bc_vars == <<transcription_buffer, clients, received, acc_pc, replay,
             bc_call, session_id, nadded>>
obs2_vars == <<classified, obs3_vars, bc_vars>>
obs_vars == <<left_behind, mm_log, cuda_seen, cuda_ret, obs2_vars>>
aux_vars == <<seg_vars, callback_ran_vad, cap_vars, inj_vars, life_vars,
              obs_vars>>
vars == <<daemon_vars, mem_vars, delta_vars, aux_vars>>

Threads == 1..MaxThreads

Max(a, b) == IF a >= b THEN a ELSE b

(* ======================= MemoryManager ================================ *)

\* get_memory_status: the pressure level of usage u for thresholds th
\* (lines 170-177: each comparison is >=)
ClassifyWith(u, th) ==
  IF u >= th.emergency THEN "emergency"
  ELSE IF u >= th.critical THEN "critical"
  ELSE IF u >= th.warning THEN "warning"
  ELSE "normal"

\* the thresholds the daemon constructs its MemoryManager with
DaemonThresholds ==
  [warning |-> WarningThreshold, critical |-> CriticalThreshold,
   emergency |-> EmergencyThreshold]

\* get_memory_status: classification of a usage sample
Classify(u) == ClassifyWith(u, DaemonThresholds)

\* get_memory_status has not been called
NotClassified ==
  [valid |-> FALSE, usage |-> 0, thresholds |-> DaemonThresholds,
   level |-> "normal"]

\* _offload_models_to_cpu, the models in `bad` raising from model.cpu():
\* every other tracked model moves to the CPU and into offloaded_models, and
\* gpu_models is cleared whatever happened.
OffloadModels(bad) ==
  /\ offloaded_models' = offloaded_models \cup (gpu_models \ bad)
  /\ gpu_models' = {}

\* the device of every model after model.cpu() on `tocpu` and model.cuda() on
\* `togpu` (torch moves a module's parameters in place)
DeviceAfter(tocpu, togpu) ==
  [m \in Models |-> IF m \in tocpu THEN "cpu"
                    ELSE IF m \in togpu THEN "gpu" ELSE device[m]]

\* _restore_models_to_gpu after the usage check passed: models are moved in
\* turn; `done` are the ones whose model.cuda() did not raise.
RestoreModels(done) ==
  /\ gpu_models' = gpu_models \cup done
  /\ offloaded_models' = offloaded_models \ done

\* handle_cuda_error: did the cleanup bring usage below 80%?
CudaRecovered(is_oom, u) == is_oom /\ u < RecoveredBelow

\* handle_cuda_error: the value returned (True = recovery attempted)
HandleCudaErrorReturns(is_oom, u) ==
  \/ CudaRecovered(is_oom, u)
  \/ cuda_error_count + 1 < MaxCudaErrors

\* handle_cuda_error: the models it offloads (bad = those whose offload raised)
CudaOffloaded(is_oom, bad) ==
  IF is_oom THEN gpu_models \ bad ELSE {}

\* handle_cuda_error: effect on the manager's own fields (u = usage read after
\* the cleanup)
HandleCudaError(is_oom, u, bad) ==
  /\ cuda_error_count' =
       IF CudaRecovered(is_oom, u)
       THEN Max(0, (cuda_error_count + 1) - 1)
       ELSE cuda_error_count + 1
  /\ IF is_oom /\ gpu_models # {}
     THEN OffloadModels(bad)
     ELSE UNCHANGED <<gpu_models, offloaded_models>>

\* reset_error_count
ResetErrorCount == cuda_error_count' = 0

(* ======================= worker threads =============================== *)

\* threading.Thread.is_alive()
IsAlive(t) == t # 0 /\ tpc[t] # "dead"

\* a transcription call (stt_model.transcribe) is executing in thread t
InFlight(t) == tpc[t] \in {"stt", "retry"}

FreeSlots == {t \in Threads : ~IsAlive(t)}

\* faulty variant: the is_alive() guard of line 649 is missing
MayStartStreamingThread_NoGuard == TRUE

\* _on_audio_chunk line 649: may a new streaming worker be started?
MayStartStreamingThread ==
  streaming_thread = 0 \/ ~IsAlive(streaming_thread)

\* threading.Thread(target=..., args=(segment,)).start()
StartThread(t, kind, seg) ==
  /\ tpc' = [tpc EXCEPT ![t] = IF kind = "batch" THEN "vad" ELSE "stt"]
  /\ tkind' = [tkind EXCEPT ![t] = kind]
  /\ tseg' = [tseg EXCEPT ![t] = seg]

\* the slot a new Thread object takes
NewSlot == CHOOSE t \in FreeSlots : \A s \in FreeSlots : t <= s

(* ======================= capture and segmentation ===================== *)

VadWindowFrames == (VadWindowMs * SampleRate) \div 1000
MinSegmentFrames == (MinSegmentMs * SampleRate) \div 1000
VadOutcomes == {"speech", "silence", "cuda_oom", "cuda_error"}

\* faulty variant: only a verdict of speech counts as speech
DetectSpeechVad_FailureIsSilence(o) == o = "speech"

\* _detect_speech_vad: the verdict (every failure is "speech present")
DetectSpeechVad(o) == o # "silence"

\* faulty variant: the silence is not waited for
IsBoundary_NoSilenceWait(buf, speech, sil) ==
  speech /\ buf >= MinSegmentFrames

\* _on_audio_chunk, steps 5-6: is this window a segment boundary?
IsBoundary(buf, speech, sil) ==
  /\ speech
  /\ sil * 1000 >= silence_duration * SampleRate
  /\ buf >= MinSegmentFrames

\* _on_audio_chunk, step 7: the accumulated segment goes to a new worker
\* thread unless the previous one is still alive
DispatchSegment ==
  /\ nseg' = nseg + 1
  /\ IF MayStartStreamingThread
     THEN /\ FreeSlots # {}
          /\ StartThread(NewSlot, "vad", nseg + 1)
          /\ streaming_thread' = NewSlot
          /\ dispatched' = Append(dispatched, nseg + 1)
          /\ UNCHANGED dropped
     ELSE /\ dropped' = dropped \cup {nseg + 1}
          /\ UNCHANGED <<tpc, tkind, tseg, streaming_thread,
                         dispatched>>

\* faulty variant: a speech verdict leaves the silence timer as it is
SilenceAfter_NotReset(has_speech) ==
  IF has_speech THEN silence_frames ELSE silence_frames + Blocksize

\* _on_audio_chunk, step 5: the silence timer after a VAD verdict
SilenceAfter(has_speech) ==
  IF has_speech THEN 0 ELSE silence_frames + Blocksize

\* _on_audio_chunk(audio, frames) with the VAD outcome o
OnAudioChunk(o) ==
  LET buf == streaming_buffer + Blocksize
      vad == buf >= VadWindowFrames
      has_speech == DetectSpeechVad(o)
      speech == IF vad /\ has_speech THEN TRUE ELSE speech_detected
      sil == IF ~vad THEN silence_frames ELSE SilenceAfter(has_speech)
  IN
  /\ IF vad /\ o \in {"cuda_oom", "cuda_error"}
     THEN /\ cuda_error_count < MaxCudaErrors + 1
          /\ device["vad_model"] = "gpu"
          /\ \E u \in Usage, bad \in SUBSET gpu_models :
               /\ HandleCudaError(o = "cuda_oom", u, bad)
               /\ device' = DeviceAfter(CudaOffloaded(o = "cuda_oom", bad), {})
     ELSE /\ (~vad => o = "speech")
          /\ UNCHANGED <<cuda_error_count, gpu_models, offloaded_models, device>>
  /\ IF vad /\ IsBoundary(buf, speech, sil)
     THEN /\ DispatchSegment
          /\ streaming_buffer' = 0
          /\ silence_frames' = 0
          /\ speech_detected' = FALSE
     ELSE /\ streaming_buffer' = buf
          /\ silence_frames' = sil
          /\ speech_detected' = speech
          /\ UNCHANGED <<nseg, tpc, tkind, tseg, streaming_thread,
                         dispatched, dropped>>

\* AudioCapture._audio_callback: one block from the sound device
AudioCallback(o) ==
  /\ is_recording
  /\ total_frames < MaxBlocks * Blocksize
  /\ total_frames' = total_frames + Blocksize
  /\ IF on_audio_callback
     THEN OnAudioChunk(o)
     ELSE /\ o = "speech"
          /\ UNCHANGED <<streaming_buffer, silence_frames, speech_detected, nseg,
                         tpc, tkind, tseg, streaming_thread,
                         dispatched, dropped, cuda_error_count, gpu_models,
                         offloaded_models, device>>
  /\ UNCHANGED <<streaming_mode, silence_duration, state, running, ipc_pc,
                 current_state, response, nresponses, ncommands, command, is_recording,
                 on_audio_callback, injected, last_pressure_level,
                 fallback, mm_pc, mm_moving, last_usage, delta_vars>>

(* ======================= command channel ============================== *)

NoResponse == [kind |-> "none", state |-> "none"]
OkResponse(st) == [kind |-> "ok", state |-> st]
StoppingResponse == [kind |-> "stopping", state |-> "none"]
ErrorResponse == [kind |-> "error", state |-> "none"]

ipc_frame == <<streaming_mode, silence_duration, is_recording,
               on_audio_callback, total_frames, streaming_buffer,
               silence_frames, speech_detected, streaming_thread, tpc, tkind,
               tseg, nseg, dispatched, dropped, injected, mem_vars, emitted, latest, mono, napplied,
                 latest_nonblank>>

\* _ipc_loop accepts a connection while self.running
IpcReady == ipc_pc = "accept" /\ running /\ ncommands < MaxCommands

\* faulty variant: toggle_recording stops the recording again while Processing
ToggleBranch_StopsInProcessing(st) ==
  IF st = "idle" THEN "start"
  ELSE IF st \in {"recording", "processing"} THEN "stop"
  ELSE "respond"

\* faulty variant: a toggle in Error starts a recording
ToggleBranch_StartsInError(st) ==
  IF st \in {"idle", "error"} THEN "start"
  ELSE IF st = "recording" THEN "stop"
  ELSE "respond"

\* toggle_recording: what the command does in the state it read
ToggleBranch(st) ==
  IF st = "idle" THEN "start"
  ELSE IF st = "recording" THEN "stop"
  ELSE "respond"

\* _handle_command, action == 'toggle': toggle_recording reads the state
IpcToggle ==
  /\ IpcReady
  /\ ncommands' = ncommands + 1
  /\ command' = "toggle"
  /\ current_state' = state
  /\ ipc_pc' = ToggleBranch(state)
  /\ UNCHANGED <<state, running, response, nresponses, last_inject, ipc_frame>>

\* faulty variant: a daemon in Error is reported as Idle
StatusResponse_HidesError(st) ==
  OkResponse(IF st = "error" THEN "idle" ELSE st)

\* the response to a status command: the value of get_state()
StatusResponse(st) == OkResponse(st)

\* _handle_command, action == 'status'
IpcStatus ==
  /\ IpcReady
  /\ ncommands' = ncommands + 1
  /\ command' = "status"
  /\ response' = StatusResponse(state)
  /\ nresponses' = nresponses + 1
  /\ current_state' = "none"
  /\ UNCHANGED <<state, running, ipc_pc, last_inject, ipc_frame>>

\* _handle_command, action == 'stop'
IpcStop ==
  /\ IpcReady
  /\ ncommands' = ncommands + 1
  /\ command' = "stop"
  /\ running' = FALSE
  /\ response' = StoppingResponse
  /\ nresponses' = nresponses + 1
  /\ current_state' = "none"
  /\ UNCHANGED <<state, ipc_pc, last_inject, ipc_frame>>

\* _handle_command, any other action
IpcUnknown ==
  /\ IpcReady
  /\ ncommands' = ncommands + 1
  /\ command' = "unknown"
  /\ response' = ErrorResponse
  /\ nresponses' = nresponses + 1
  /\ current_state' = "none"
  /\ UNCHANGED <<state, running, ipc_pc, last_inject, ipc_frame>>

\* faulty variant: _start_recording resets only what the stop path resets too
SilenceStateAtStart_Kept ==
  [silence |-> silence_frames, speech |-> speech_detected]

\* _start_recording, streaming mode: _silence_duration = 0 and
\* _speech_detected = False
SilenceStateAtStart == [silence |-> 0, speech |-> FALSE]

\* _start_recording; ok = audio_capture.start() did not raise
IpcStartRecording(ok) ==
  /\ ipc_pc = "start"
  /\ IF streaming_mode
     THEN /\ on_audio_callback' = TRUE
          /\ streaming_buffer' = 0
          /\ silence_frames' = SilenceStateAtStart.silence
          /\ speech_detected' = SilenceStateAtStart.speech
          /\ last_inject' = <<>>
     ELSE UNCHANGED <<on_audio_callback, streaming_buffer, silence_frames,
                      speech_detected, last_inject>>
  /\ IF is_recording
     THEN /\ ok
          /\ state' = "recording"
          /\ UNCHANGED <<is_recording, total_frames>>
     ELSE /\ total_frames' = 0
          /\ is_recording' = ok
          /\ state' = IF ok THEN "recording" ELSE "error"
  /\ ipc_pc' = "respond"
  /\ UNCHANGED <<streaming_mode, silence_duration, running, current_state,
                 response, nresponses, ncommands, command, streaming_thread, tpc, tkind, tseg,
                 nseg, dispatched, dropped, injected, mem_vars, emitted, latest, mono, napplied,
                 latest_nonblank>>

\* _stop_recording_and_process up to the join of the streaming thread
IpcStopRecording ==
  /\ ipc_pc = "stop"
  /\ state' = "processing"
  /\ on_audio_callback' = IF streaming_mode THEN FALSE ELSE on_audio_callback
  /\ ipc_pc' = "join"
  /\ UNCHANGED <<streaming_mode, silence_duration, running, current_state,
                 response, nresponses, ncommands, command, is_recording, total_frames,
                 streaming_buffer, silence_frames, speech_detected,
                 streaming_thread, tpc, tkind, tseg, nseg,
                 dispatched, dropped, injected, mem_vars, delta_vars>>

\* _stop_recording_and_process after join(timeout=2) returned (the thread
\* ended or the timeout passed); ok = audio_capture.stop() did not raise
IpcStopCapture(ok) ==
  /\ ipc_pc = "join"
  /\ is_recording' = FALSE
  /\ ipc_pc' = "respond"
  /\ IF is_recording /\ ~ok
     THEN /\ state' = "error"
          /\ UNCHANGED <<last_inject, streaming_buffer, tpc, tkind, tseg>>
     ELSE IF ~is_recording \/ total_frames = 0
     THEN /\ state' = "idle"
          /\ UNCHANGED <<last_inject, streaming_buffer, tpc, tkind, tseg>>
     ELSE IF streaming_mode
     THEN /\ last_inject' = <<>>
          /\ streaming_buffer' = 0
          /\ state' = "idle"
          /\ UNCHANGED <<tpc, tkind, tseg>>
     ELSE /\ FreeSlots # {}
          /\ StartThread(NewSlot, "batch", 0)
          /\ UNCHANGED <<state, last_inject, streaming_buffer>>
  /\ UNCHANGED <<streaming_mode, silence_duration, running, current_state,
                 response, nresponses, ncommands, command, on_audio_callback, total_frames,
                 silence_frames, speech_detected, streaming_thread, nseg,
                 dispatched, dropped, injected, mem_vars, emitted, latest, mono, napplied,
                 latest_nonblank>>

\* _handle_command builds the toggle response from a fresh get_state()
IpcRespond ==
  /\ ipc_pc = "respond"
  /\ response' = OkResponse(state)
  /\ nresponses' = nresponses + 1
  /\ ipc_pc' = "accept"
  /\ UNCHANGED <<state, running, current_state, ncommands, command, last_inject,
                 ipc_frame>>

(* ======================= _process_vad_segment ========================= *)

worker_frame == <<streaming_mode, silence_duration, running, ipc_pc,
                  current_state, response, nresponses, ncommands, command, is_recording,
                  on_audio_callback, total_frames, streaming_buffer,
                  silence_frames, speech_detected, streaming_thread,
                  nseg, dispatched, dropped,
                  last_pressure_level, mm_pc, mm_moving, last_usage,
                  delta_vars>>

SetPc(t, pc) == tpc' = [tpc EXCEPT ![t] = pc] /\ UNCHANGED <<tkind, tseg>>

\* the thread's target function returned
ThreadEnds(t) ==
  /\ tpc' = [tpc EXCEPT ![t] = "dead"]
  /\ tkind' = [tkind EXCEPT ![t] = "none"]
  /\ tseg' = [tseg EXCEPT ![t] = 0]

\* the state the daemon is put in when a streaming transcription raises
\* (lines 788-791: the exception is printed, nothing else)
StateAfterVadFailure == state

\* first transcribe() returned: reset_error_count, go on to transform/inject
VadSttOk(t) ==
  /\ tkind[t] = "vad" /\ tpc[t] = "stt"
  /\ ResetErrorCount
  /\ SetPc(t, "inject")
  /\ UNCHANGED <<state, injected, gpu_models, offloaded_models,
                 device, fallback, worker_frame>>

\* first transcribe() raised a RuntimeError naming CUDA / out of memory:
\* handle_cuda_error, fall back to the CPU if it says so, then retry
VadSttCuda(t, is_oom, u, bad) ==
  /\ tkind[t] = "vad" /\ tpc[t] = "stt"
  /\ cuda_error_count < MaxCudaErrors + 1
  /\ device["stt_model"] = "gpu"
  /\ bad \subseteq gpu_models
  /\ HandleCudaError(is_oom, u, bad)
  /\ LET ret == HandleCudaErrorReturns(is_oom, u)
     IN /\ device' = DeviceAfter(CudaOffloaded(is_oom, bad) \cup
                                 (IF ret THEN {} ELSE {"stt_model"}), {})
        /\ fallback' = (fallback \/ ~ret)
  /\ SetPc(t, "retry")
  /\ UNCHANGED <<state, injected, worker_frame>>

\* faulty variant: a failed streaming transcription stops the daemon
VadSttFatal_StopsDaemon(t) ==
  /\ tkind[t] = "vad" /\ tpc[t] = "stt"
  /\ state' = "error"
  /\ running' = FALSE
  /\ ThreadEnds(t)
  /\ UNCHANGED <<injected, mem_vars, streaming_mode, silence_duration,
                 ipc_pc, current_state, response, nresponses, ncommands,
                 command, is_recording, on_audio_callback, total_frames,
                 streaming_buffer, silence_frames, speech_detected,
                 streaming_thread, nseg, dispatched, dropped, delta_vars>>

\* first transcribe() raised anything else: re-raised to the outer except
VadSttFatal(t) ==
  /\ tkind[t] = "vad" /\ tpc[t] = "stt"
  /\ state' = StateAfterVadFailure
  /\ ThreadEnds(t)
  /\ UNCHANGED <<injected, mem_vars, worker_frame>>

\* the retry returned (the error counter is left as it is)
VadRetryOk(t) ==
  /\ tkind[t] = "vad" /\ tpc[t] = "retry"
  /\ SetPc(t, "inject")
  /\ UNCHANGED <<state, injected, mem_vars, worker_frame>>

\* the retry raised (oom: resource exhaustion again): caught by the outer
\* except
VadRetryFail(t, oom) ==
  /\ tkind[t] = "vad" /\ tpc[t] = "retry"
  /\ oom \in BOOLEAN
  /\ state' = StateAfterVadFailure
  /\ ThreadEnds(t)
  /\ UNCHANGED <<injected, mem_vars, worker_frame>>

\* transform and inject the text (nothing is injected for blank text)
VadInject(t, blank) ==
  /\ tkind[t] = "vad" /\ tpc[t] = "inject"
  /\ injected' = IF blank THEN injected ELSE Append(injected, tseg[t])
  /\ ThreadEnds(t)
  /\ UNCHANGED <<state, mem_vars, worker_frame>>

(* ======================= _process_audio (batch) ======================= *)

\* the quick VAD check on the whole recording found no speech
BatchSilence(t) ==
  /\ tkind[t] = "batch" /\ tpc[t] = "vad"
  /\ state' = "idle"
  /\ ThreadEnds(t)
  /\ UNCHANGED <<injected, mem_vars, worker_frame>>

\* speech found: start transcribing
BatchSpeech(t) ==
  /\ tkind[t] = "batch" /\ tpc[t] = "vad"
  /\ SetPc(t, "stt")
  /\ UNCHANGED <<state, injected, mem_vars, worker_frame>>

\* every transcribe() call returned
BatchSttOk(t) ==
  /\ tkind[t] = "batch" /\ tpc[t] = "stt"
  /\ SetPc(t, "inject")
  /\ UNCHANGED <<state, injected, mem_vars, worker_frame>>

\* a transcribe() call raised: except -> ERROR, then time.sleep(1)
BatchSttFail(t) ==
  /\ tkind[t] = "batch" /\ tpc[t] = "stt"
  /\ state' = "error"
  /\ SetPc(t, "cooldown")
  /\ UNCHANGED <<injected, mem_vars, worker_frame>>

\* inject the merged text and return to idle
BatchInject(t, blank) ==
  /\ tkind[t] = "batch" /\ tpc[t] = "inject"
  /\ blank \in BOOLEAN
  /\ state' = "idle"
  /\ ThreadEnds(t)
  /\ UNCHANGED <<injected, mem_vars, worker_frame>>

\* the one-second sleep after a failure is over
BatchCooldown(t) ==
  /\ tkind[t] = "batch" /\ tpc[t] = "cooldown"
  /\ state' = "idle"
  /\ ThreadEnds(t)
  /\ UNCHANGED <<injected, mem_vars, worker_frame>>

(* ======================= _monitoring_loop ============================= *)

monitor_frame == <<streaming_mode, silence_duration, ipc_pc, current_state,
                   response, nresponses, ncommands, command, on_audio_callback, total_frames,
                   streaming_buffer, silence_frames, speech_detected,
                   streaming_thread, tpc, tkind, tseg, nseg,
                   dispatched, dropped, injected, cuda_error_count,
                   fallback, delta_vars>>

\* faulty variant: _handle_emergency offloads whatever the re-check says
EmergencyOffloads_Always(u2) == u2 \in Usage

\* _handle_emergency: offload only if the re-check after cleanup is still
\* EMERGENCY
EmergencyOffloads(u2) == Classify(u2) = "emergency"

\* faulty variant: restoration does not look at the usage
RestoreGoesAhead_NoUsageCheck(u2) == offloaded_models # {} /\ u2 \in Usage

\* _handle_normal / _restore_models_to_gpu: restoration goes ahead
RestoreGoesAhead(u2) == offloaded_models # {} /\ ~(u2 > RestoreThreshold)

\* faulty variant: any sample above Normal is handled, changed or not
LevelChanged_OrAboveNormal(level) ==
  level # last_pressure_level \/ level # "normal"

\* _monitoring_loop: `status.pressure_level != self.last_pressure_level`
LevelChanged(level) == level # last_pressure_level

\* one iteration of the loop with usage sample u; u2 is the usage re-read by
\* the handler after its cleanup
MonitorSample(u, u2) ==
  /\ mm_pc = "sleep"
  /\ last_usage' = u
  /\ LET level == Classify(u)
     IN IF ~LevelChanged(level)
        THEN UNCHANGED <<mm_pc, mm_moving, last_pressure_level>>
        ELSE IF level = "emergency" /\ EmergencyOffloads(u2)
        THEN /\ mm_pc' = "offloading"
             /\ mm_moving' = gpu_models
             /\ UNCHANGED last_pressure_level
        ELSE IF level = "normal" /\ RestoreGoesAhead(u2)
        THEN /\ mm_pc' = "restoring"
             /\ mm_moving' = offloaded_models
             /\ UNCHANGED last_pressure_level
        ELSE /\ last_pressure_level' = level
             /\ UNCHANGED <<mm_pc, mm_moving>>
  /\ UNCHANGED <<state, running, is_recording, gpu_models, offloaded_models,
                 device, monitor_frame>>

\* _offload_models_to_cpu finished (bad = models whose model.cpu() raised);
\* u3 is the final check of _handle_emergency: above 98% -> _emergency_shutdown,
\* whose callback is SwictationDaemon._emergency_memory_shutdown and which ends
\* the monitor thread with sys.exit(1)
MonitorOffloadDone(bad, u3) ==
  /\ mm_pc = "offloading"
  /\ bad \subseteq gpu_models
  /\ mm_moving' = {}
  /\ UNCHANGED last_usage
  /\ IF u3 > ShutdownCeiling
     THEN /\ is_recording' = IF state = "recording" THEN FALSE ELSE is_recording
          /\ state' = "error"
          /\ running' = FALSE
          /\ gpu_models' = {}
          /\ offloaded_models' = {}
          /\ device' = DeviceAfter(gpu_models \ bad, {})
          /\ mm_pc' = "exited"
          /\ UNCHANGED last_pressure_level
     ELSE /\ OffloadModels(bad)
          /\ device' = DeviceAfter(gpu_models \ bad, {})
          /\ last_pressure_level' = "emergency"
          /\ mm_pc' = "sleep"
          /\ UNCHANGED <<state, running, is_recording>>
  /\ UNCHANGED monitor_frame

\* _restore_models_to_gpu finished (done = models whose model.cuda() worked)
MonitorRestoreDone(done) ==
  /\ mm_pc = "restoring"
  /\ done \subseteq offloaded_models
  /\ RestoreModels(done)
  /\ device' = DeviceAfter({}, done)
  /\ mm_moving' = {}
  /\ last_pressure_level' = "normal"
  /\ mm_pc' = "sleep"
  /\ UNCHANGED <<state, running, is_recording, last_usage, monitor_frame>>

(* ======================= the daemon =================================== *)

\* stop() has not returned yet
NotStopped == [valid |-> FALSE, audio |-> <<>>]

\* observers of the focused specifications start empty
AuxInit ==
  /\ stream = <<>>
  /\ verdicts = <<>>
  /\ boundary_at = <<>>
  /\ callback_ran_vad = FALSE
  /\ buffer = <<>>
  /\ chunk_buffer = <<>>
  /\ on_chunk_ready = FALSE
  /\ pushed = <<>>
  /\ delivered = <<>>
  /\ returned = NotStopped
  /\ inj_text = <<>>
  /\ inj_outcomes = <<>>
  /\ inj_attempted = <<>>
  /\ inj_result = TRUE
  /\ main_pc = "loop"
  /\ mm_running = TRUE
  /\ broadcaster_running = TRUE
  /\ socket_open = TRUE
  /\ socket_file = TRUE
  /\ signalled = FALSE
  /\ left_behind = FALSE
  /\ mm_log = <<>>
  /\ cuda_seen = 0
  /\ cuda_ret = TRUE
  /\ classified = NotClassified
  /\ chunk_lock = "free"
  /\ cb_pc = "idle"
  /\ last_size = 0
  /\ transcription_buffer = <<>>
  /\ clients = FALSE
  /\ received = <<>>
  /\ acc_pc = "accept"
  /\ replay = [live |-> TRUE, old |-> <<>>, idx |-> 1]
  /\ bc_call = [pc |-> "idle", event |-> [type |-> "none", session |-> 0, n |-> 0]]
  /\ session_id = 1
  /\ nadded = 0

Init ==
  /\ streaming_mode \in BOOLEAN
  /\ silence_duration \in SilenceDurations
  /\ state = "idle"
  /\ running = TRUE
  /\ ipc_pc = "accept"
  /\ current_state = "none"
  /\ response = NoResponse
  /\ nresponses = 0
  /\ ncommands = 0
  /\ command = "none"
  /\ is_recording = FALSE
  /\ on_audio_callback = FALSE
  /\ total_frames = 0
  /\ streaming_buffer = 0
  /\ silence_frames = 0
  /\ speech_detected = FALSE
  /\ streaming_thread = 0
  /\ tpc = [t \in Threads |-> "dead"]
  /\ tkind = [t \in Threads |-> "none"]
  /\ tseg = [t \in Threads |-> 0]
  /\ nseg = 0
  /\ dispatched = <<>>
  /\ dropped = {}
  /\ injected = <<>>
  /\ last_pressure_level = "normal"
  /\ gpu_models = Models
  /\ offloaded_models = {}
  /\ device = [m \in Models |-> "gpu"]
  /\ cuda_error_count = 0
  /\ fallback = FALSE
  /\ mm_pc = "sleep"
  /\ mm_moving = {}
  /\ last_usage = 0
  /\ last_inject = <<>>
  /\ emitted = <<>>
  /\ latest = <<>>
  /\ mono = TRUE
  /\ napplied = 0
  /\ latest_nonblank = <<>>
  /\ AuxInit

\* _audio_callback calls on_audio_callback (= _on_audio_chunk) itself, which
\* calls _detect_speech_vad itself once the buffer holds a VAD window
CallbackRunsVad ==
  on_audio_callback /\ streaming_buffer + Blocksize >= VadWindowFrames

Capture ==
  /\ \E o \in {"speech", "silence"} : AudioCallback(o)
  /\ callback_ran_vad' = CallbackRunsVad
  /\ UNCHANGED <<seg_vars, cap_vars, inj_vars, life_vars, obs_vars>>
CaptureVadError ==
  /\ \E o \in {"cuda_oom", "cuda_error"} : AudioCallback(o)
  /\ callback_ran_vad' = CallbackRunsVad
  /\ UNCHANGED <<seg_vars, cap_vars, inj_vars, life_vars, obs_vars>>
Ipc ==
  /\ \/ IpcToggle \/ IpcStatus \/ IpcStop \/ IpcUnknown
     \/ \E ok \in BOOLEAN : IpcStartRecording(ok)
     \/ IpcStopRecording
     \/ \E ok \in BOOLEAN : IpcStopCapture(ok)
     \/ IpcRespond
  /\ UNCHANGED aux_vars
VadWorker ==
  /\ \E t \in Threads :
       \/ VadSttOk(t)
       \/ \E is_oom \in BOOLEAN, u \in Usage, bad \in SUBSET gpu_models :
            VadSttCuda(t, is_oom, u, bad)
       \/ VadSttFatal(t) \/ VadRetryOk(t)
       \/ \E oom \in BOOLEAN : VadRetryFail(t, oom)
       \/ \E blank \in BOOLEAN : VadInject(t, blank)
  /\ UNCHANGED aux_vars
BatchWorker ==
  /\ \E t \in Threads :
       \/ BatchSilence(t) \/ BatchSpeech(t) \/ BatchSttOk(t) \/ BatchSttFail(t)
       \/ \E blank \in BOOLEAN : BatchInject(t, blank)
       \/ BatchCooldown(t)
  /\ UNCHANGED aux_vars
Monitor ==
  /\ \/ \E u \in Usage, u2 \in Usage : MonitorSample(u, u2)
     \/ \E bad \in SUBSET Models, u3 \in Usage : MonitorOffloadDone(bad, u3)
     \/ \E done \in SUBSET Models : MonitorRestoreDone(done)
  /\ UNCHANGED aux_vars

Next == Capture \/ Ipc \/ VadWorker \/ BatchWorker

Spec == Init /\ [][Next]_vars

\* A streaming recording session in progress: the state right after the first
\* toggle was answered, with the memory monitor running.
InitMem ==
  /\ streaming_mode = TRUE
  /\ silence_duration \in SilenceDurations
  /\ state = "recording"
  /\ running = TRUE
  /\ ipc_pc = "accept"
  /\ current_state = "idle"
  /\ response = OkResponse("recording")
  /\ nresponses = 1
  /\ ncommands = 1
  /\ command = "toggle"
  /\ is_recording = TRUE
  /\ on_audio_callback = TRUE
  /\ total_frames = 0
  /\ streaming_buffer = 0
  /\ silence_frames = 0
  /\ speech_detected = FALSE
  /\ streaming_thread = 0
  /\ tpc = [t \in Threads |-> "dead"]
  /\ tkind = [t \in Threads |-> "none"]
  /\ tseg = [t \in Threads |-> 0]
  /\ nseg = 0
  /\ dispatched = <<>>
  /\ dropped = {}
  /\ injected = <<>>
  /\ last_pressure_level = "normal"
  /\ gpu_models = Models
  /\ offloaded_models = {}
  /\ device = [m \in Models |-> "gpu"]
  /\ cuda_error_count = 0
  /\ fallback = FALSE
  /\ mm_pc = "sleep"
  /\ mm_moving = {}
  /\ last_usage = 0
  /\ last_inject = <<>>
  /\ emitted = <<>>
  /\ latest = <<>>
  /\ mono = TRUE
  /\ napplied = 0
  /\ latest_nonblank = <<>>
  /\ AuxInit

NextMem == Capture \/ CaptureVadError \/ VadWorker \/ Monitor

SpecMem == InitMem /\ [][NextMem]_vars

(* ======================= claims: the transcription slot =============== *)

AliveThreads == {t \in Threads : IsAlive(t)}

\* C1: at most one transcription worker exists at any time, so at most one
\* transcription call is in flight: a worker is never started while the
\* previous one is still running.
C1_OneWorkerAtATime == Cardinality(AliveThreads) <= 1

\* C1 witness: a segment boundary fired while a transcription call was in
\* flight (the second segment found the slot taken)
C1_Witness == dropped # {} /\ \E t \in Threads : InFlight(t)

\* C2 (as claimed): no detected segment boundary is ever discarded without
\* being handed to a transcription worker.
C2_NoSegmentDropped == dropped = {}

\* C3: the texts of segments reach the injector in the order in which their
\* boundaries were detected.
C3_InjectionOrder ==
  \A i, j \in 1..Len(injected) : i < j => injected[i] < injected[j]

\* C3 witness: two segments have been injected
C3_Witness == Len(injected) >= 2

\* C5 (as claimed): the response to a toggle that found the daemon Processing
\* always reports "processing".
C5_ResponseIsProcessing ==
  (ipc_pc = "accept" /\ current_state = "processing" /\ response.kind = "ok")
     => response.state = "processing"

\* C5 (amended): a toggle that reads Processing does nothing but answer: its
\* two steps change no daemon, capture, segmentation or worker state, nothing
\* is left pending, and the response carries the state read when the response
\* is built, which is never "recording".
C5_ToggleInProcessingIsNoOp ==
  [][ /\ (ipc_pc = "accept" /\ ipc_pc' # "accept"
            /\ current_state' = "processing")
         => (ipc_pc' = "respond" /\ UNCHANGED <<state, running, ipc_frame>>)
      /\ (ipc_pc = "respond" /\ ipc_pc' = "accept"
            /\ current_state = "processing")
         => /\ response' = OkResponse(state)
            /\ state # "recording"
            /\ UNCHANGED <<state, running, ipc_frame>>
    ]_vars

\* C5 witness: a toggle that found the daemon Processing has been answered
C5_Witness ==
  /\ ipc_pc = "accept" /\ current_state = "processing"
  /\ response = OkResponse("processing")

\* C6 (as claimed, the failure half): after Recording + toggle, while the
\* daemon is Processing, a transcription worker whose call fails puts the
\* daemon in Error.
C6_WorkerOutcomeDrivesState ==
  [][ \A t \in Threads :
        (state = "processing" /\ InFlight(t) /\ tpc'[t] \in {"dead", "cooldown"})
           => state' = "error" ]_vars

\* C7 (as claimed): a first transcription attempt that ends in an error other
\* than resource exhaustion puts the daemon in Error, in either mode.
C7_FailureSurfaces ==
  [][ \A t \in Threads :
        (tpc[t] = "stt" /\ tpc'[t] \in {"dead", "cooldown"})
           => state' = "error" ]_vars


(* ======================= _inject_streaming_delta ====================== *)
(* A transcript is a sequence of characters.                              *)

Alphabet == {"a", " "}
Whitespace == {" "}
Transcripts == UNION {[1..n -> Alphabet] : n \in 0..MaxLen}

\* str.strip() == "": only whitespace, or empty
IsBlank(t) == \A i \in 1..Len(t) : t[i] \in Whitespace

\* str.startswith
StartsWith(t, p) == Len(p) <= Len(t) /\ SubSeq(t, 1, Len(p)) = p

\* faulty variant: the whole transcript is taken as the delta
DeltaOf_WholeText(t) == t

\* new_transcription[len(self._last_injected):]
DeltaOf(t) == SubSeq(t, Len(last_inject) + 1, Len(t))

RECURSIVE Concat(_)
Concat(ss) == IF ss = <<>> THEN <<>> ELSE Head(ss) \o Concat(Tail(ss))

\* faulty variant: only the empty string is skipped
NothingToInject_EmptyOnly(t) == t = <<>>

\* line 819: if not new_transcription.strip(): return
NothingToInject(t) == IsBlank(t)

\* faulty variant: a revision emits only what lies beyond the old length
RevisionEmits_Delta(t) == DeltaOf(t)

\* line 841: the text handed to text_injector.inject on a revision
RevisionEmits(t) == t

\* faulty variant: only the delta is recorded
NewLastInjected_Delta(t) == DeltaOf(t)

\* lines 831 and 842: self._last_injected = new_transcription
NewLastInjected(t) == t

\* _inject_streaming_delta(new_transcription): effect on _last_injected and
\* on what the text injector receives
InjectStreamingDelta(t) ==
  IF NothingToInject(t)
  THEN UNCHANGED <<last_inject, emitted>>
  ELSE IF StartsWith(t, last_inject)
  THEN IF ~IsBlank(DeltaOf(t))
       THEN /\ emitted' = Append(emitted, DeltaOf(t))
            /\ last_inject' = NewLastInjected(t)
       ELSE UNCHANGED <<last_inject, emitted>>
  ELSE /\ emitted' = Append(emitted, RevisionEmits(t))
       /\ last_inject' = NewLastInjected(t)

\* a call with the next cumulative transcript
ApplyTranscript(t) ==
  /\ napplied < MaxApply
  /\ InjectStreamingDelta(t)
  /\ latest' = t
  /\ mono' = (mono /\ StartsWith(t, latest))
  /\ napplied' = napplied + 1
  /\ latest_nonblank' = IF IsBlank(t) THEN latest_nonblank ELSE t
  /\ UNCHANGED <<daemon_vars, mem_vars, aux_vars>>

\* the reset of _start_recording (lines 587-588)
ResetInjector ==
  /\ napplied > 0
  /\ last_inject' = <<>>
  /\ emitted' = <<>>
  /\ latest' = <<>>
  /\ mono' = TRUE
  /\ napplied' = 0
  /\ latest_nonblank' = <<>>
  /\ UNCHANGED <<daemon_vars, mem_vars, aux_vars>>

Apply == \E t \in Transcripts : ApplyTranscript(t)
NextDelta == Apply \/ ResetInjector
SpecDelta == Init /\ [][NextDelta]_vars

C4_NoMoveDuringTranscription ==
  [][ (\E t \in Threads : InFlight(t) /\ tpc'[t] = tpc[t])
        => device'["stt_model"] = device["stt_model"] ]_vars

\* C8: the pressure level has hysteresis: once Critical, the level is lowered
\* only by a sample below the warning threshold; a sample between the warning
\* and the critical threshold leaves it Critical.
C8_Hysteresis ==
  [][ (last_pressure_level = "critical"
         /\ last_pressure_level' \in {"warning", "normal"})
        => last_usage' < WarningThreshold ]_vars

\* C9: once the daemon has fallen back to the CPU for transcription, the
\* transcription model is never on the GPU again.
C9_FallbackIsPermanent == fallback => device["stt_model"] = "cpu"


(* ======================= claims: the streaming injector =============== *)

Called == napplied' = napplied + 1

\* C11 (as claimed): whenever _inject_streaming_delta is called with a
\* transcript that does not start with _last_injected, the whole transcript
\* is emitted as one emission and becomes _last_injected.
C11_RevisionEmitsAll ==
  [][ (Called /\ ~StartsWith(latest', last_inject))
        => /\ emitted' = Append(emitted, latest')
           /\ last_inject' = latest' ]_vars

\* C11 (amended): whenever _inject_streaming_delta is called with a transcript
\* that is not blank and does not start with _last_injected, the whole
\* transcript is emitted verbatim as one emission, earlier output is kept,
\* and _last_injected becomes that transcript.
C11_RevisionOfNonBlankEmitsAll ==
  [][ (Called /\ ~IsBlank(latest') /\ ~StartsWith(latest', last_inject))
        => /\ emitted' = Append(emitted, latest')
           /\ last_inject' = latest' ]_vars

\* C11 witness: a revision was applied: the last emission is the whole last
\* transcript, and the emission before it is not a prefix of it
C11_Witness ==
  /\ Len(emitted) >= 2
  /\ emitted[Len(emitted)] = latest
  /\ last_inject = latest
  /\ ~StartsWith(latest, emitted[Len(emitted) - 1])
  /\ Len(latest) >= 2

\* C12: _last_injected is always a prefix of (or equal to) the latest
\* non-blank transcript applied, and after a call with a non-blank transcript
\* it is a prefix of that transcript.
C12_LastInjectedIsPrefix == StartsWith(latest_nonblank, last_inject)

\* C12 witness: after an extension that added only whitespace, _last_injected
\* is a proper prefix of the latest transcript
C12_Witness ==
  /\ latest_nonblank = latest
  /\ last_inject # <<>>
  /\ last_inject # latest
  /\ StartsWith(latest, last_inject)

\* C13: applying an empty or whitespace-only transcript emits nothing and
\* leaves _last_injected unchanged, whatever the injector state.
C13_BlankIsNoOp ==
  [][ (Called /\ IsBlank(latest')) => UNCHANGED <<last_inject, emitted>> ]_vars

\* C13 witness: a whitespace-only transcript was applied to an injector that
\* had already injected text, and that text is still recorded
C13_Witness ==
  /\ napplied >= 2
  /\ latest # <<>> /\ IsBlank(latest)
  /\ last_inject # <<>>
  /\ Concat(emitted) = last_inject


(* ======================= segmentation on its own ====================== *)
(* _on_audio_chunk driven block by block with a stream whose content is   *)
(* known, and a VAD that is right about every window holding only speech  *)
(* or only silence.                                                       *)

\* silence_duration is configurable (default 2.0 s, line 73)
SegSilenceDurations == {500, 2000}

InitSeg ==
  /\ streaming_mode = TRUE
  /\ silence_duration \in SegSilenceDurations
  /\ state = "recording"
  /\ running = TRUE
  /\ ipc_pc = "accept"
  /\ current_state = "idle"
  /\ response = OkResponse("recording")
  /\ nresponses = 1
  /\ ncommands = 1
  /\ command = "toggle"
  /\ is_recording = TRUE
  /\ on_audio_callback = TRUE
  /\ total_frames = 0
  /\ streaming_buffer = 0
  /\ silence_frames = 0
  /\ speech_detected = FALSE
  /\ streaming_thread = 0
  /\ tpc = [t \in Threads |-> "dead"]
  /\ tkind = [t \in Threads |-> "none"]
  /\ tseg = [t \in Threads |-> 0]
  /\ nseg = 0
  /\ dispatched = <<>>
  /\ dropped = {}
  /\ injected = <<>>
  /\ last_pressure_level = "normal"
  /\ gpu_models = Models
  /\ offloaded_models = {}
  /\ device = [m \in Models |-> "gpu"]
  /\ cuda_error_count = 0
  /\ fallback = FALSE
  /\ mm_pc = "sleep"
  /\ mm_moving = {}
  /\ last_usage = 0
  /\ last_inject = <<>>
  /\ emitted = <<>>
  /\ latest = <<>>
  /\ mono = TRUE
  /\ napplied = 0
  /\ latest_nonblank = <<>>
  /\ AuxInit

\* the verdicts the VAD can give on the last 512 ms, the current block
\* holding `cur` and the one before it `prev`
VadVerdicts(prev, cur) ==
  IF VadWindowFrames > Blocksize /\ prev # cur
  THEN {"speech", "silence"}
  ELSE {cur}

\* one call of _on_audio_chunk with a block that really holds `truth`
SegChunk(truth, o) ==
  /\ on_audio_callback
  /\ Len(stream) < MaxStream
  /\ LET vad == streaming_buffer + Blocksize >= VadWindowFrames
         prev == IF stream = <<>> THEN truth ELSE stream[Len(stream)]
     IN /\ o \in (IF vad THEN VadVerdicts(prev, truth) ELSE {"speech"})
        /\ verdicts' = Append(verdicts, IF vad THEN o ELSE "none")
  /\ OnAudioChunk(o)
  /\ stream' = Append(stream, truth)
  /\ boundary_at' = IF nseg' = nseg + 1
                    THEN Append(boundary_at, Len(stream) + 1)
                    ELSE boundary_at
  /\ UNCHANGED <<streaming_mode, silence_duration, state, running, ipc_pc,
                 current_state, response, nresponses, ncommands, command, is_recording,
                 on_audio_callback, total_frames, injected,
                 last_pressure_level, fallback, mm_pc, mm_moving, last_usage,
                 delta_vars, callback_ran_vad, cap_vars, inj_vars, life_vars, obs_vars>>

SegSpeech == \E o \in {"speech", "silence"} : SegChunk("speech", o)
SegSilence == \E o \in {"speech", "silence"} : SegChunk("silence", o)
NextSeg == SegSpeech \/ SegSilence
SpecSeg == InitSeg /\ [][NextSeg]_vars

(* ======================= claims: segmentation ========================= *)

\* 2.0 s of speech followed by 2.5 s of silence, in blocks of half a second
ExampleStream == [i \in 1..9 |-> IF i <= 4 THEN "speech" ELSE "silence"]

\* the block at which the boundary before the j-th boundary fired (0: start)
BoundaryBefore(j) == IF j = 1 THEN 0 ELSE boundary_at[j - 1]

\* the blocks of the j-th segment on which the VAD said "speech"
SpeechVerdicts(j) ==
  {i \in (BoundaryBefore(j) + 1)..boundary_at[j] : verdicts[i] = "speech"}

CapChunk(o) ==
  /\ on_audio_callback
  /\ Len(stream) < MaxCapBlocks
  /\ o \in {"speech", "cuda_oom", "cuda_error"}
  /\ OnAudioChunk(o)
  /\ stream' = Append(stream, "speech")
  /\ verdicts' = verdicts
  /\ boundary_at' = IF nseg' = nseg + 1
                    THEN Append(boundary_at, Len(stream) + 1)
                    ELSE boundary_at
  /\ UNCHANGED <<streaming_mode, silence_duration, state, running, ipc_pc,
                 current_state, response, nresponses, ncommands, command, is_recording,
                 on_audio_callback, total_frames, injected,
                 last_pressure_level, fallback, mm_pc, mm_moving, last_usage,
                 delta_vars, callback_ran_vad, cap_vars, inj_vars, life_vars, obs_vars>>

CapSpeech == CapChunk("speech")
CapVadFails == \E o \in {"cuda_oom", "cuda_error"} : CapChunk(o)
NextCap == CapSpeech \/ CapVadFails
SpecCap == InitSeg /\ [][NextCap]_vars

\* C15: the segment buffer is bounded: a boundary is forced once the
\* utterance exceeds the maximum duration (30 s per segment), so the buffer
\* never holds more than that, even when the VAD never reports silence.
C15_BufferBounded == streaming_buffer * 1000 <= BufferDurationMs * SampleRate


(* ======================= claims: the capture thread =================== *)

\* C16: the capture callback only appends to buffers and hands data off; it
\* never runs the VAD call (or a transcription call) itself.
C16_CallbackRunsNoVad == ~callback_ran_vad


(* ======================= AudioCapture on its own ====================== *)

SampleValues == {0, 1}

\* the blocks of samples one callback can bring
Blocks == UNION {[1..n -> SampleValues] : n \in 1..MaxFrames}

\* faulty variant: the buffer keeps only the latest block
DequeExtend_Replace(buf, xs) == xs

\* deque(maxlen).extend: the oldest samples fall out once maxlen is reached
DequeExtend(buf, xs) ==
  LET all == buf \o xs
  IN IF Len(all) > MaxBufferSamples
     THEN SubSeq(all, Len(all) - MaxBufferSamples + 1, Len(all))
     ELSE all

\* how often the while loop of lines 136-145 runs
NumChunks(cb) == Len(cb) \div ChunkFrames

\* the chunks it extracts, in order
ChunksOf(cb) ==
  [k \in 1..NumChunks(cb) |->
     SubSeq(cb, (k - 1) * ChunkFrames + 1, k * ChunkFrames)]

\* faulty variant: extracted samples stay in the chunk buffer
ChunkRemainder_KeepsAll(cb) == cb

\* what it leaves in _chunk_buffer
ChunkRemainder(cb) == SubSeq(cb, NumChunks(cb) * ChunkFrames + 1, Len(cb))

\* the consumer attaches a chunk handler before starting
RegisterChunkCallback ==
  /\ ~is_recording
  /\ pushed = <<>>
  /\ ~on_chunk_ready
  /\ on_chunk_ready' = TRUE
  /\ UNCHANGED <<daemon_vars, mem_vars, delta_vars, seg_vars, inj_vars, life_vars, obs_vars,
                 callback_ran_vad, buffer, chunk_buffer, pushed, delivered,
                 returned>>

\* AudioCapture.start()
CaptureStart ==
  /\ ~is_recording
  /\ buffer' = <<>>
  /\ total_frames' = 0
  /\ chunk_buffer' = <<>>
  /\ is_recording' = TRUE
  /\ pushed' = <<>>
  /\ delivered' = <<>>
  /\ returned' = NotStopped
  /\ UNCHANGED <<streaming_mode, silence_duration, state, running, ipc_pc,
                 current_state, response, nresponses, ncommands, command, on_audio_callback,
                 streaming_buffer, silence_frames, speech_detected,
                 streaming_thread, tpc, tkind, tseg, nseg, dispatched,
                 dropped, injected, mem_vars, delta_vars, seg_vars, inj_vars, life_vars, obs_vars,
                 callback_ran_vad, on_chunk_ready>>

\* AudioCapture._audio_callback with the samples xs, no on_audio_callback set
CapturePush(xs) ==
  /\ is_recording
  /\ ~on_audio_callback
  /\ Len(pushed) + Len(xs) <= MaxPushed
  /\ pushed' = pushed \o xs
  /\ buffer' = DequeExtend(buffer, xs)
  /\ total_frames' = total_frames + Len(xs)
  /\ IF streaming_mode
     THEN LET cb == chunk_buffer \o xs
          IN /\ chunk_buffer' = ChunkRemainder(cb)
             /\ delivered' = IF on_chunk_ready
                             THEN delivered \o ChunksOf(cb)
                             ELSE delivered
     ELSE UNCHANGED <<chunk_buffer, delivered>>
  /\ UNCHANGED <<streaming_mode, silence_duration, state, running, ipc_pc,
                 current_state, response, nresponses, ncommands, command, is_recording,
                 on_audio_callback, streaming_buffer, silence_frames,
                 speech_detected, streaming_thread, tpc, tkind, tseg, nseg,
                 dispatched, dropped, injected, mem_vars, delta_vars,
                 seg_vars, inj_vars, life_vars, obs_vars, callback_ran_vad, on_chunk_ready, returned>>

\* AudioCapture.stop() on an active capture
CaptureStop ==
  /\ is_recording
  /\ is_recording' = FALSE
  /\ returned' = [valid |-> TRUE, audio |-> buffer]
  /\ UNCHANGED <<streaming_mode, silence_duration, state, running, ipc_pc,
                 current_state, response, nresponses, ncommands, command, on_audio_callback,
                 total_frames, streaming_buffer, silence_frames,
                 speech_detected, streaming_thread, tpc, tkind, tseg, nseg,
                 dispatched, dropped, injected, mem_vars, delta_vars,
                 seg_vars, inj_vars, life_vars, obs_vars, callback_ran_vad, buffer, chunk_buffer,
                 on_chunk_ready, pushed, delivered>>

Push == \E xs \in Blocks : CapturePush(xs)
NextCapture == RegisterChunkCallback \/ CaptureStart \/ Push \/ CaptureStop
SpecCapture == Init /\ [][NextCapture]_vars


(* ======================= claims: the capture engine =================== *)

Stopped == ~is_recording /\ returned.valid

\* C17 (as claimed): as long as no more samples were pushed than the buffer
\* can hold, stop() returns exactly the pushed samples and, in streaming
\* mode, the delivered chunks followed by the chunk buffer are the pushed
\* samples.
C17_NoFrameLoss ==
  Len(pushed) <= MaxBufferSamples =>
    /\ buffer = pushed
    /\ Stopped => returned.audio = pushed
    /\ streaming_mode => Concat(delivered) \o chunk_buffer = pushed

\* C17 (amended): as long as no more samples were pushed than the buffer can
\* hold, the batch buffer holds and stop() returns exactly the pushed
\* samples; in streaming mode with a chunk callback registered the delivered
\* chunks followed by the chunk buffer are the pushed samples; without one
\* the chunk buffer holds only what came after the last complete chunk.
C17_NoFrameLossWithCallback ==
  /\ Len(pushed) <= MaxBufferSamples =>
        /\ buffer = pushed
        /\ Stopped => returned.audio = pushed
  /\ (streaming_mode /\ on_chunk_ready) =>
        Concat(delivered) \o chunk_buffer = pushed
  /\ (streaming_mode /\ ~on_chunk_ready) =>
        /\ delivered = <<>>
        /\ chunk_buffer = ChunkRemainder(pushed)

\* C17 witness: a streaming capture with a callback was stopped after two
\* callbacks that filled the buffer exactly, one chunk and a half sample run
C17_Witness ==
  /\ Stopped /\ streaming_mode /\ on_chunk_ready
  /\ Len(pushed) = MaxBufferSamples
  /\ returned.audio = pushed
  /\ delivered # <<>>

\* C18: every delivered chunk has exactly chunk_frames samples, the chunks
\* taken in order are a prefix of the pushed samples, and a chunk is delivered
\* exactly each time the accumulator reaches the chunk size.
C18_ChunksAreExactAndInOrder ==
  /\ \A k \in 1..Len(delivered) : Len(delivered[k]) = ChunkFrames
  /\ StartsWith(pushed, Concat(delivered))
  /\ Len(chunk_buffer) < ChunkFrames
  /\ (streaming_mode /\ on_chunk_ready) =>
        Len(delivered) = Len(pushed) \div ChunkFrames
  /\ ~streaming_mode => delivered = <<>>

\* C18 witness: two chunks were delivered and a sample is waiting
C18_Witness ==
  /\ Len(delivered) >= 2
  /\ chunk_buffer # <<>>
  /\ delivered[1] # delivered[2]

\* C19: right after stop() on an active capture, the batch buffer and the
\* chunk buffer hold no samples.
C19_StopClearsBuffers == Stopped => (buffer = <<>> /\ chunk_buffer = <<>>)


(* ======================= _inject_text_with_keys ======================= *)
(* A transformed text is a sequence of tokens: "c" a literal character,   *)
(* "K" a <KEY:...> marker.                                                *)

Tokens == {"c", "K"}
Texts == UNION {[1..n -> Tokens] : n \in 0..MaxTokens}
SinkOutcomes == {"ok", "rejected", "raises"}

\* lines 506-524: the text split into literal runs and key markers; a piece
\* is <<type, first token, last token>>
RECURSIVE SplitFrom(_, _)
SplitFrom(text, i) ==
  IF i > Len(text) THEN <<>>
  ELSE IF text[i] = "K"
  THEN <<(<<"key", i, i>>)>> \o SplitFrom(text, i + 1)
  ELSE LET stops == {j \in i..Len(text) : text[j] = "K"}
           e == IF stops = {} THEN Len(text)
                ELSE (CHOOSE j \in stops : \A h \in stops : j <= h) - 1
       IN <<(<<"text", i, e>>)>> \o SplitFrom(text, e + 1)

SplitParts(text) == SplitFrom(text, 1)

\* line 527: no parts, or text parts only
PlainText(parts) == \A k \in 1..Len(parts) : parts[k][1] = "text"

\* lines 531-543: the loop returns at the first piece the injector rejects
\* or raises on; the number of pieces it has tried by then
PiecesTried(parts, outs) ==
  LET bad == {k \in 1..Len(parts) : outs[k] # "ok"}
  IN IF bad = {} THEN Len(parts)
     ELSE CHOOSE k \in bad : \A h \in bad : k <= h

\* _inject_text_with_keys(transformed_text), the injector answering outs[k]
\* to the k-th piece offered
InjectTextWithKeys(text, outs) ==
  LET parts == SplitParts(text)
  IN /\ inj_text' = text
     /\ inj_outcomes' = outs
     /\ IF PlainText(parts)
        THEN /\ Len(outs) = 1
             /\ inj_attempted' = <<(<<"text", 1, Len(text)>>)>>
             /\ inj_result' = (outs[1] = "ok")
        ELSE /\ Len(outs) = Len(parts)
             /\ inj_attempted' = SubSeq(parts, 1, PiecesTried(parts, outs))
             /\ inj_result' = \A k \in 1..Len(parts) : outs[k] = "ok"
     /\ UNCHANGED <<daemon_vars, mem_vars, delta_vars, seg_vars,
                    callback_ran_vad, cap_vars, life_vars, obs_vars>>

InjectUtterance ==
  \E text \in Texts :
    \E outs \in UNION {[1..n -> SinkOutcomes] : n \in 1..MaxTokens} :
      InjectTextWithKeys(text, outs)
NextInject == InjectUtterance
SpecInject == Init /\ [][NextInject]_vars

\* C20: when the sink rejects one piece of an utterance, every remaining
\* piece of the same utterance is still dispatched, in order.
C20_EveryPieceDispatched ==
  ~PlainText(SplitParts(inj_text)) => inj_attempted = SplitParts(inj_text)

(* ======================= claims: the command channel ================== *)

\* a step in which _handle_command handles a command with the given action
Handles(action) == ncommands' = ncommands + 1 /\ command' = action

\* C21: a status command, in whatever state the daemon is, is answered with
\* ok and the state the daemon is in when the command is handled; the step
\* changes neither the state nor anything of capture, segmentation,
\* transcription, injection or the memory manager.
C21_StatusIsReadOnly ==
  [][Handles("status") =>
       /\ response' = OkResponse(state)
       /\ ipc_pc' = "accept"
       /\ UNCHANGED <<state, running, last_inject, ipc_frame>>]_vars

\* a status command was answered while the daemon was in Error
C21_Witness ==
  command = "status" /\ state = "error" /\ response = OkResponse("error")

\* every command sent is answered once: the responses sent so far are the
\* commands accepted so far, less the one still being handled
OneResponsePerCommand ==
  nresponses = ncommands - (IF ipc_pc = "accept" THEN 0 ELSE 1)

\* a command being handled can always be carried on to its response
HandlingGoesOn == ipc_pc # "accept" => ENABLED Ipc

\* while the loop accepts commands, each of the four kinds is handled
EveryCommandHandled ==
  (ipc_pc = "accept" /\ running /\ ncommands < MaxCommands)
    => (ENABLED IpcToggle /\ ENABLED IpcStatus /\ ENABLED IpcStop
        /\ ENABLED IpcUnknown)

\* what handling does, command by command
HandlingStep ==
  /\ Handles("toggle") =>
       /\ UNCHANGED <<state, response, nresponses>>
       /\ state = "error" =>
            (ipc_pc' = "respond" /\ UNCHANGED <<running, last_inject, ipc_frame>>)
  /\ (ipc_pc = "respond" /\ ipc_pc' = "accept") =>
       /\ response' = OkResponse(state)
       /\ UNCHANGED <<state, running, last_inject, ipc_frame>>
  /\ Handles("status") => (response'.kind = "ok" /\ ipc_pc' = "accept")
  /\ Handles("stop") =>
       (response' = StoppingResponse /\ ipc_pc' = "accept" /\ state' = state)
  /\ Handles("unknown") =>
       /\ response' = ErrorResponse
       /\ ipc_pc' = "accept"
       /\ UNCHANGED <<state, running, last_inject, ipc_frame>>

\* C22: command handling is total: in each daemon state each of toggle,
\* status, stop and an unknown action is handled, handling always goes on to
\* exactly one response and leaves the daemon in one of its four states; a
\* toggle in Error changes nothing and is answered ok, an unknown action is
\* answered with an error and changes nothing.
C22_CommandHandlingIsTotal ==
  /\ [](state \in DaemonStates /\ OneResponsePerCommand /\ HandlingGoesOn
        /\ EveryCommandHandled)
  /\ [][HandlingStep]_vars

\* a toggle received in Error was answered, the daemon still in Error
C22_Witness ==
  /\ command = "toggle" /\ current_state = "error" /\ ipc_pc = "accept"
  /\ state = "error" /\ response = OkResponse("error")
  /\ nresponses = ncommands

(* ======================= start() main loop and stop() ================= *)

main_frame == <<streaming_mode, silence_duration, state, ipc_pc,
                current_state, response, nresponses, ncommands, command,
                on_audio_callback, total_frames, streaming_buffer,
                silence_frames, speech_detected, streaming_thread, tpc,
                tkind, tseg, nseg, dispatched, dropped, injected, mem_vars,
                delta_vars, seg_vars, callback_ran_vad, cap_vars, inj_vars,
                obs_vars>>

\* the process is still there: stop() has neither returned nor raised
ProcessAlive == main_pc \notin {"exited", "raised"}

\* start(): `while self.running: time.sleep(1)` finds the flag cleared and
\* the finally clause calls stop()
MainLoopExit ==
  /\ main_pc = "loop"
  /\ ~running
  /\ main_pc' = "stop"
  /\ UNCHANGED <<running, is_recording, mm_running, broadcaster_running,
                 socket_open, socket_file, signalled, main_frame>>

\* stop(): running = False, memory_manager.stop_monitoring(),
\* metrics_broadcaster.stop()
MainStopServices ==
  /\ main_pc = "stop"
  /\ running' = FALSE
  /\ mm_running' = FALSE
  /\ broadcaster_running' = FALSE
  /\ main_pc' = "capture"
  /\ UNCHANGED <<is_recording, socket_open, socket_file, signalled,
                 main_frame>>

\* stop(): `if self.audio_capture.is_active(): self.audio_capture.stop()`, not
\* inside a try; ok = stop() did not raise (it clears is_recording first)
MainStopCapture(ok) ==
  /\ main_pc = "capture"
  /\ IF is_recording
     THEN /\ is_recording' = FALSE
          /\ main_pc' = IF ok THEN "socket" ELSE "raised"
     ELSE /\ ok
          /\ main_pc' = "socket"
          /\ UNCHANGED is_recording
  /\ UNCHANGED <<running, mm_running, broadcaster_running, socket_open,
                 socket_file, signalled, main_frame>>

\* stop(): server_socket.close(), os.remove(socket_path); stop() returns and
\* the process ends
MainCloseSocket ==
  /\ main_pc = "socket"
  /\ socket_open' = FALSE
  /\ socket_file' = FALSE
  /\ main_pc' = "exited"
  /\ UNCHANGED <<running, is_recording, mm_running, broadcaster_running,
                 signalled, main_frame>>

\* main(): signal_handler on SIGTERM / SIGINT
Signal ==
  /\ main_pc = "loop"
  /\ ~signalled
  /\ running' = FALSE
  /\ signalled' = TRUE
  /\ UNCHANGED <<main_pc, is_recording, mm_running, broadcaster_running,
                 socket_open, socket_file, main_frame>>

Main ==
  \/ MainLoopExit \/ MainStopServices
  \/ \E ok \in BOOLEAN : MainStopCapture(ok)
  \/ MainCloseSocket

\* the daemon's other threads run only as long as the process is there
Threads_Run == ProcessAlive /\ (Capture \/ Ipc \/ VadWorker \/ BatchWorker)

NextStop == Threads_Run \/ Main

\* the main thread is scheduled: it wakes from time.sleep(1) and each call in
\* stop() returns or raises
SpecStop == Init /\ [][NextStop]_vars /\ WF_vars(Main)

\* everything stop() is to release has been released and stop() returned
Released ==
  /\ main_pc = "exited"
  /\ ~running /\ ~is_recording
  /\ ~mm_running /\ ~broadcaster_running
  /\ ~socket_open /\ ~socket_file

\* C23: a stop command, in whatever state it is received, is followed by the
\* daemon terminating with the running flag cleared, the capture stopped, the
\* pressure monitor and the broadcaster stopped and the command socket closed
\* and its file removed.
C23_StopReleasesResources == (command = "stop") ~> Released

(* ======================= the daemon with its monitor and signals ====== *)

\* usage samples at the Emergency level, below and above the hard ceiling
EmergencySamples == {96, 99}

\* the monitor thread meeting an emergency, while MemoryManager.running
MonitorEmergency ==
  /\ mm_running
  /\ \/ \E u \in EmergencySamples, u2 \in EmergencySamples : MonitorSample(u, u2)
     \/ \E u3 \in EmergencySamples : MonitorOffloadDone({}, u3)
  /\ UNCHANGED aux_vars

\* the session is kept short: at most MaxLifeBlocks audio callbacks
ShortSession == total_frames' <= MaxLifeBlocks * Blocksize

NextLife ==
  /\ \/ Capture \/ Ipc \/ VadWorker \/ BatchWorker
     \/ MonitorEmergency \/ Signal
  /\ ShortSession

SpecLife == Init /\ [][NextLife]_vars

(* ======================= claims: what ends the daemon ================= *)

\* _handle_emergency's final check found usage above the ceiling and called
\* _emergency_shutdown
EmergencyShutdownStep == mm_pc = "offloading" /\ mm_pc' = "exited"

SessionDirty ==
  \/ last_inject # <<>> \/ streaming_buffer # 0
  \/ silence_frames # 0 \/ speech_detected

\* _start_recording, recording what it found
StartRecordingObserved ==
  /\ \E ok \in BOOLEAN : IpcStartRecording(ok)
  /\ left_behind' = SessionDirty
  /\ UNCHANGED <<seg_vars, callback_ran_vad, cap_vars, inj_vars, life_vars,
                 mm_log, cuda_seen, cuda_ret, obs2_vars>>

\* the IPC thread everywhere else
IpcElsewhere ==
  /\ \/ IpcToggle \/ IpcStatus \/ IpcStop \/ IpcUnknown
     \/ IpcStopRecording
     \/ \E ok \in BOOLEAN : IpcStopCapture(ok)
     \/ IpcRespond
  /\ UNCHANGED aux_vars

NextSession ==
  Capture \/ StartRecordingObserved \/ IpcElsewhere \/ VadWorker \/ BatchWorker

SpecSession == Init /\ [][NextSession]_vars

\* C25: every step of _start_recording that takes the daemon from Idle into
\* Recording leaves last_injected empty, the segment buffer empty, the silence
\* timer at zero and no speech marked, whatever it found.
C25_SessionStartsClean ==
  [][(ipc_pc = "start" /\ state = "idle" /\ state' = "recording")
       => ~SessionDirty']_vars

\* a session just started clean although the one before had left speech
\* marked or silence counted
C25_Witness ==
  /\ state = "recording" /\ ipc_pc = "respond" /\ command = "toggle"
  /\ left_behind /\ ~SessionDirty

(* ======================= the monitor thread, logged =================== *)

\* one thing the monitor did: the step, the level being handled and the usage
\* it read at that step
Entry(step, level, usage) == [step |-> step, level |-> level, usage |-> usage]

\* the cleanup each handler does before it re-reads the usage
CleanupOf(level, u2) ==
  IF level = "warning" THEN <<Entry("gc", level, u2)>>
  ELSE IF level \in {"critical", "emergency"}
  THEN <<Entry("cleanup", level, u2)>>
  ELSE IF offloaded_models # {} THEN <<Entry("usage_check", level, u2)>>
  ELSE <<>>

\* the registered callback runs once _handle_pressure_change's handler returned
CallbackOf(level, u) ==
  IF mm_pc' = "sleep" THEN <<Entry("callback", level, u)>> ELSE <<>>

\* one iteration of _monitoring_loop
SampleLogged(u, u2) ==
  /\ MonitorSample(u, u2)
  /\ LET level == Classify(u)
     IN mm_log' = IF LevelChanged(level)
                  THEN <<Entry("handler", level, u)>> \o CleanupOf(level, u2)
                         \o CallbackOf(level, u)
                  ELSE <<>>

\* _handle_emergency from _offload_models_to_cpu on
OffloadLogged(bad, u3) ==
  /\ MonitorOffloadDone(bad, u3)
  /\ mm_log' = mm_log \o <<Entry("offload", "emergency", u3)>>
                      \o CallbackOf("emergency", last_usage)

\* _handle_normal from the model.cuda() calls on
RestoreLogged(done) ==
  /\ MonitorRestoreDone(done)
  /\ mm_log' = mm_log \o <<Entry("restore", "normal", last_usage)>>
                      \o CallbackOf("normal", last_usage)

MonitorLogged ==
  /\ \/ \E u \in Usage, u2 \in Usage : SampleLogged(u, u2)
     \/ \E bad \in SUBSET Models, u3 \in Usage : OffloadLogged(bad, u3)
     \/ \E done \in SUBSET Models : RestoreLogged(done)
  /\ UNCHANGED <<seg_vars, callback_ran_vad, cap_vars, inj_vars, life_vars,
                 left_behind, cuda_seen, cuda_ret, obs2_vars>>

NextPressure == MonitorLogged

\* the monitor thread alone, started during a recording session
SpecPressure == InitMem /\ [][NextPressure]_vars

Steps(log) == [i \in DOMAIN log |-> log[i].step]
Count(step, log) == Cardinality({i \in DOMAIN log : log[i].step = step})

(* ======================= claims: the pressure handlers ================ *)

\* the handler of an emergency ran its aggressive cleanup first, and the usage
\* it re-read afterwards was still at the Emergency level
CleanupThenStillEmergency ==
  /\ Len(mm_log) >= 2
  /\ mm_log[1].step = "handler" /\ mm_log[1].level = "emergency"
  /\ mm_log[2].step = "cleanup"
  /\ Classify(mm_log[2].usage) = "emergency"

\* the stages the monitor has gone through, in the states it can be in
StagedEmergency ==
  /\ (mm_log # <<>> /\ mm_log[1].level = "emergency") =>
       (Len(mm_log) >= 2 /\ mm_log[2].step = "cleanup")
  /\ mm_pc = "offloading" => (CleanupThenStillEmergency /\ Len(mm_log) = 2)
  /\ Count("offload", mm_log) > 0 =>
       (CleanupThenStillEmergency /\ mm_log[3].step = "offload")
  /\ mm_pc = "exited" =>
       /\ CleanupThenStillEmergency
       /\ Steps(mm_log) = <<"handler", "cleanup", "offload">>
       /\ mm_log[3].usage > ShutdownCeiling
  /\ (mm_log # <<>> /\ mm_log[1].level = "critical") =>
       (Count("offload", mm_log) = 0 /\ mm_pc = "sleep")

\* a step in which a model leaves the GPU, or the daemon is shut down
OffloadOrShutdownStep ==
  \/ \E m \in Models : device[m] = "gpu" /\ device'[m] = "cpu"
  \/ offloaded_models' # offloaded_models /\ gpu_models' = {}
  \/ running /\ ~running'

\* C26: an emergency is handled in stages: the aggressive cleanup first; the
\* offload only if the usage re-read after the cleanup is still Emergency; the
\* shutdown only after that offload and only if the usage read after it is
\* above the ceiling of 98%; handling a change to Critical never offloads and
\* never shuts down.
C26_EmergencyIsStaged ==
  /\ []StagedEmergency
  /\ [][OffloadOrShutdownStep =>
          /\ mm_pc = "offloading" /\ CleanupThenStillEmergency
          /\ Classify(last_usage) = "emergency"
          /\ (~running' => mm_log'[3].usage > ShutdownCeiling)]_vars

\* the monitor shut the daemon down after cleanup and offload
C26_Witness ==
  /\ mm_pc = "exited" /\ ~running
  /\ Steps(mm_log) = <<"handler", "cleanup", "offload">>

\* a sample is handled on a change of level only: its handler runs once for
\* the sample's level, and nothing runs when the level is the recorded one
HandlerOnChangeOnly ==
  mm_pc = "sleep" =>
    IF Classify(last_usage') # last_pressure_level
    THEN /\ Count("handler", mm_log') = 1
         /\ mm_log'[1] = Entry("handler", Classify(last_usage'), last_usage')
    ELSE mm_log' = <<>> /\ UNCHANGED last_pressure_level

\* the handling of a changed level ends with the level's callback, run once,
\* and the level recorded
EndsWithCallback ==
  /\ Count("handler", mm_log') = 1
  /\ Count("callback", mm_log') = 1
  /\ mm_log'[Len(mm_log')] =
       Entry("callback", Classify(last_usage'), last_usage')
  /\ last_pressure_level' = Classify(last_usage')

RestorationStep ==
  \E m \in Models :
    \/ m \notin gpu_models /\ m \in gpu_models'
    \/ device[m] = "cpu" /\ device'[m] = "gpu"

\* the monitor is handling a change back to Normal, found models offloaded and
\* read a usage that is not above the restoration threshold
RestorationAllowed ==
  /\ mm_pc = "restoring"
  /\ last_pressure_level # "normal" /\ Classify(last_usage) = "normal"
  /\ Steps(mm_log) = <<"handler", "usage_check">>
  /\ mm_log[1].level = "normal"
  /\ offloaded_models # {}
  /\ mm_log[2].usage <= RestoreThreshold

\* whatever model.cuda() did, the manager goes on: the models not restored
\* stay offloaded and on the CPU, the loop sleeps, the daemon is untouched
RestorationIsNotFatal ==
  /\ mm_pc' = "sleep" /\ last_pressure_level' = "normal"
  /\ offloaded_models' = offloaded_models \ (gpu_models' \ gpu_models)
  /\ \A m \in offloaded_models' : device'[m] = device[m]
  /\ UNCHANGED <<state, running, is_recording>>

cuda_frame == <<daemon_vars, last_pressure_level, fallback, mm_pc, mm_moving,
                last_usage, delta_vars, seg_vars, callback_ran_vad, cap_vars,
                inj_vars, life_vars, left_behind, mm_log, obs2_vars>>

\* a caller reports a CUDA RuntimeError: handle_cuda_error(error); u is the
\* usage it reads after its cleanup, bad the models whose offload raised
ReportCudaError(is_oom, u, bad) ==
  /\ cuda_seen < MaxReports
  /\ bad \subseteq gpu_models
  /\ HandleCudaError(is_oom, u, bad)
  /\ device' = DeviceAfter(CudaOffloaded(is_oom, bad), {})
  /\ cuda_ret' = HandleCudaErrorReturns(is_oom, u)
  /\ cuda_seen' = cuda_seen + 1
  /\ UNCHANGED cuda_frame

\* a call succeeded and its caller calls reset_error_count
ReportSuccess ==
  /\ ResetErrorCount
  /\ cuda_seen' = 0
  /\ UNCHANGED <<gpu_models, offloaded_models, device, cuda_ret, cuda_frame>>

\* the monitor brought the offloaded models back (usage Normal and low)
ModelsRestored ==
  /\ offloaded_models # {}
  /\ \E done \in SUBSET offloaded_models :
       /\ RestoreModels(done)
       /\ device' = DeviceAfter({}, done)
  /\ UNCHANGED <<cuda_error_count, cuda_seen, cuda_ret, cuda_frame>>

NextCuda ==
  \/ \E is_oom \in BOOLEAN, u \in Usage, bad \in SUBSET Models :
       ReportCudaError(is_oom, u, bad)
  \/ ReportSuccess
  \/ ModelsRestored

SpecCuda == InitMem /\ [][NextCuda]_vars

\* C29: after n errors in a row reported to handle_cuda_error the counter is
\* n, and the n-th call returned True for n < 3 and False from n = 3 on,
\* whatever the cleanup achieved.
C29_CounterCountsEveryError ==
  cuda_seen > 0 =>
    /\ cuda_error_count = cuda_seen
    /\ cuda_ret = (cuda_seen < MaxCudaErrors)

(* ======================= claims: the error counter and success ======== *)

\* a transcribe() call of some worker returned: first attempt or retry of
\* _process_vad_segment, or the batch transcription of _process_audio
SuccessfulTranscription ==
  \E t \in Threads : InFlight(t) /\ tpc'[t] = "inject"

\* C30: whenever a transcription call succeeds, streaming or batch, first
\* attempt or retry, the CUDA error counter is zero afterwards.
C30_SuccessResetsCounter ==
  [][SuccessfulTranscription => cuda_error_count' = 0]_vars

(* ======================= get_memory_status, sample by sample ========== *)

\* threshold settings: the daemon's, and the ones of the repository's tests
ThresholdSettings ==
  {DaemonThresholds, [warning |-> 75, critical |-> 85, emergency |-> 95]}

UsagePercents == 0..MaxPercent

\* one call of get_memory_status on a manager built with thresholds th, the
\* allocated memory being u percent of the total
GetMemoryStatus(u, th) ==
  /\ classified' = [valid |-> TRUE, usage |-> u, thresholds |-> th,
                    level |-> ClassifyWith(u, th)]
  /\ UNCHANGED <<daemon_vars, mem_vars, delta_vars, seg_vars,
                 callback_ran_vad, cap_vars, inj_vars, life_vars,
                 left_behind, mm_log, cuda_seen, cuda_ret, obs3_vars,
                 bc_vars>>

NextStatus ==
  \E u \in UsagePercents, th \in ThresholdSettings : GetMemoryStatus(u, th)

SpecStatus == InitMem /\ [][NextStatus]_vars

\* C31: a sample is Emergency above the emergency threshold, Critical between
\* the critical and the emergency threshold, Warning between the warning and
\* the critical threshold, Normal below the warning threshold, and Normal
\* when its usage equals the warning threshold.
C31_ThresholdItselfIsNormal ==
  classified.valid =>
    LET u == classified.usage
        th == classified.thresholds
    IN /\ u > th.emergency => classified.level = "emergency"
       /\ (th.critical < u /\ u < th.emergency) => classified.level = "critical"
       /\ (th.warning < u /\ u < th.critical) => classified.level = "warning"
       /\ u < th.warning => classified.level = "normal"
       /\ u = th.warning => classified.level = "normal"

(* ======================= claims: what a segment holds ================= *)

\* the blocks of the j-th segment that hold speech or on which the VAD said
\* "speech"
SpeechBlocks(j) ==
  {i \in (BoundaryBefore(j) + 1)..boundary_at[j] :
     stream[i] = "speech" \/ verdicts[i] = "speech"}

\* C32: every segment emitted holds at least the minimum segment duration
\* (1.0 s) of speech-bearing audio; a short blip of speech followed by silence
\* gives no segment.
C32_SegmentHoldsMinSpeech ==
  \A j \in 1..Len(boundary_at) :
    Cardinality(SpeechBlocks(j)) * Blocksize >= MinSegmentFrames

\* the VAD says "speech" on this block while a pause shorter than
\* silence_duration is being counted
SpeechResumes ==
  /\ speech_detected
  /\ silence_frames > 0
  /\ silence_frames * 1000 < silence_duration * SampleRate
  /\ Len(verdicts') = Len(verdicts) + 1
  /\ verdicts'[Len(verdicts')] = "speech"

\* C33: when the VAD says "speech" again before the silence counted reaches
\* silence_duration, the silence timer goes back to zero, no boundary fires,
\* and the buffer keeps the audio from before the pause together with the new
\* block.
C33_PauseDoesNotSplit ==
  [][SpeechResumes =>
       /\ silence_frames' = 0
       /\ speech_detected'
       /\ nseg' = nseg /\ boundary_at' = boundary_at
       /\ streaming_buffer' = streaming_buffer + Blocksize]_vars

\* a segment was emitted that holds speech, a pause and speech again
C33_Witness ==
  \E j \in 1..Len(boundary_at) :
    \E i, k, l \in (BoundaryBefore(j) + 1)..boundary_at[j] :
      /\ i < k /\ k < l
      /\ verdicts[i] = "speech" /\ verdicts[k] = "silence"
      /\ verdicts[l] = "speech"

(* ======================= a VAD that can fail ========================== *)

\* the ways _detect_speech_vad can fail to give a verdict: a CUDA
\* out-of-memory error, another CUDA error, any other exception, and no VAD
\* model at all (lines 992-993, 1024-1035)
VadFailures == {"cuda_oom", "cuda_error", "error", "no_model"}

\* one call of _on_audio_chunk in which the VAD is asked and fails
SegVadFails ==
  \E truth \in {"speech", "silence"}, o \in VadFailures :
    /\ on_audio_callback
    /\ Len(stream) < MaxStream
    /\ streaming_buffer + Blocksize >= VadWindowFrames
    /\ OnAudioChunk(o)
    /\ verdicts' = Append(verdicts, "failed")
    /\ stream' = Append(stream, truth)
    /\ boundary_at' = IF nseg' = nseg + 1
                      THEN Append(boundary_at, Len(stream) + 1)
                      ELSE boundary_at
    /\ UNCHANGED <<streaming_mode, silence_duration, state, running, ipc_pc,
                   current_state, response, nresponses, ncommands, command,
                   is_recording, on_audio_callback, total_frames, injected,
                   last_pressure_level, fallback, mm_pc, mm_moving,
                   last_usage, delta_vars, callback_ran_vad, cap_vars,
                   inj_vars, life_vars, obs_vars>>

\* the streams considered here are at most this many blocks long
MaxVadBlocks == 5
ShortStream == Len(stream') <= MaxVadBlocks

NextVad == (SegSpeech \/ SegSilence \/ SegVadFails) /\ ShortStream
SpecVad == InitSeg /\ [][NextVad]_vars

(* ======================= claims: a failing VAD ======================== *)

\* the VAD was asked on this block and failed
VadFailedStep ==
  /\ Len(verdicts') = Len(verdicts) + 1
  /\ verdicts'[Len(verdicts')] = "failed"

\* C34: a window on which the VAD fails, or for which there is no VAD model,
\* is segmented as a window of speech: the callback completes, the silence
\* timer is zero after it, speech is marked detected, the block is kept in
\* the buffer and no boundary fires.
C34_VadFailureIsSpeech ==
  [][VadFailedStep =>
       /\ silence_frames' = 0
       /\ speech_detected'
       /\ nseg' = nseg /\ boundary_at' = boundary_at
       /\ streaming_buffer' = streaming_buffer + Blocksize
       /\ on_audio_callback']_vars

\* the VAD failed on a silent block that came after counted silence, and the
\* silence timer is back at zero
C34_Witness ==
  /\ Len(verdicts) >= 2
  /\ verdicts[Len(verdicts)] = "failed"
  /\ stream[Len(stream)] = "silence"
  /\ verdicts[Len(verdicts) - 1] = "silence"
  /\ \A j \in 1..Len(boundary_at) : boundary_at[j] < Len(verdicts) - 1
  /\ silence_frames = 0
  /\ speech_detected

(* ======================= a chunk callback that queries ================ *)
(* _audio_callback step by step, with a chunk handler that may call        *)
(* get_chunk_buffer_size() on the capture object, as the handler of        *)
(* test_chunk_buffer_methods does.  _chunk_buffer_lock is a threading.Lock *)
(* (line 62): whoever acquires it waits until it is free, its holder       *)
(* included.                                                               *)

query_frame == <<streaming_mode, silence_duration, state, running, ipc_pc,
                 current_state, response, nresponses, ncommands, command,
                 on_audio_callback, streaming_buffer, silence_frames,
                 speech_detected, streaming_thread, tpc, tkind, tseg, nseg,
                 dispatched, dropped, injected, mem_vars, delta_vars,
                 seg_vars, inj_vars, life_vars, callback_ran_vad,
                 left_behind, mm_log, cuda_seen, cuda_ret, classified,
                 bc_vars, on_chunk_ready, returned>>

\* lines 136-145: the next chunk is cut from a chunk buffer cb and handed to
\* on_chunk_ready, or the loop ends and the lock is released
EmitOrRelease(cb) ==
  IF Len(cb) >= ChunkFrames
  THEN /\ chunk_buffer' = SubSeq(cb, ChunkFrames + 1, Len(cb))
       /\ IF on_chunk_ready
          THEN /\ delivered' = Append(delivered, SubSeq(cb, 1, ChunkFrames))
               /\ cb_pc' = "callback"
               /\ chunk_lock' = "capture"
          ELSE /\ delivered' = delivered
               /\ cb_pc' = "loop"
               /\ chunk_lock' = "capture"
  ELSE /\ chunk_buffer' = cb
       /\ delivered' = delivered
       /\ cb_pc' = "idle"
       /\ chunk_lock' = "free"

\* _audio_callback with the samples xs, up to the first chunk (lines 125-145)
QueryPush(xs) ==
  /\ is_recording
  /\ ~on_audio_callback
  /\ cb_pc = "idle"
  /\ Len(pushed) + Len(xs) <= MaxPushed
  /\ pushed' = pushed \o xs
  /\ buffer' = DequeExtend(buffer, xs)
  /\ total_frames' = total_frames + Len(xs)
  /\ IF streaming_mode
     THEN /\ chunk_lock = "free"
          /\ EmitOrRelease(chunk_buffer \o xs)
     ELSE UNCHANGED <<chunk_buffer, delivered, cb_pc, chunk_lock>>
  /\ UNCHANGED <<query_frame, is_recording, last_size>>

\* the chunk handler runs: it returns at once, or it calls
\* get_chunk_buffer_size() and waits for _chunk_buffer_lock (line 338)
CallbackBody(queries) ==
  /\ cb_pc = "callback"
  /\ cb_pc' = IF queries THEN "waiting" ELSE "loop"
  /\ UNCHANGED <<query_frame, cap_vars, is_recording, total_frames,
                 chunk_lock, last_size>>

\* get_chunk_buffer_size() called by the chunk handler or by another thread:
\* it gets the lock when the lock is free, reads and releases
GetChunkBufferSize(caller) ==
  /\ caller = "callback" => cb_pc = "waiting"
  /\ chunk_lock = "free"
  /\ last_size' = Len(chunk_buffer)
  /\ cb_pc' = IF caller = "callback" THEN "loop" ELSE cb_pc
  /\ UNCHANGED <<query_frame, cap_vars, is_recording, total_frames,
                 chunk_lock>>

\* the while loop goes round after the handler returned (line 136)
ChunkLoop ==
  /\ cb_pc = "loop"
  /\ EmitOrRelease(chunk_buffer)
  /\ UNCHANGED <<query_frame, buffer, pushed, is_recording, total_frames,
                 last_size>>

QueryCaptureStart == CaptureStart /\ cb_pc = "idle"
QueryPushes == \E xs \in Blocks : QueryPush(xs)
ChunkHandler == \E queries \in BOOLEAN : CallbackBody(queries)
Query == \E caller \in {"callback", "main"} : GetChunkBufferSize(caller)
NextQuery ==
  \/ RegisterChunkCallback \/ QueryCaptureStart \/ QueryPushes
  \/ ChunkHandler \/ Query \/ ChunkLoop
SpecQuery == Init /\ [][NextQuery]_vars

(* ======================= claims: querying from the callback =========== *)

\* C35: when the chunk handler calls get_chunk_buffer_size() from inside the
\* callback, the call can return (and with it the callback can complete and
\* the capture thread can go on).
C35_QueryFromCallbackReturns ==
  cb_pc = "waiting" => ENABLED GetChunkBufferSize("callback")

(* ======================= the daemon, every thread scheduled =========== *)

\* the IPC thread and the worker threads are scheduled whenever they can
\* take a step; commands and audio arrive or not
SpecRecover ==
  /\ Init /\ [][Next]_vars
  /\ WF_vars(Ipc) /\ WF_vars(VadWorker) /\ WF_vars(BatchWorker)

(* ======================= claims: leaving Error ======================== *)

\* C36: from every reachable Error state the daemon eventually returns to
\* Idle.
C36_ErrorIsNotPermanent == (state = "error") ~> (state = "idle")

(* ======================= claims: the end of a session ================= *)

\* a streaming transcription thread has not finished
TranscriptionPending == \E t \in Threads : tkind[t] = "vad" /\ tpc[t] # "dead"

\* C37: when the daemon is Idle in streaming mode, no transcription of a
\* segment is still pending.
C37_IdleMeansNothingPending ==
  (streaming_mode /\ state = "idle") => ~TranscriptionPending

(* ======================= claims: model tracking ======================= *)

\* C38: until emergency shutdown every registered model is tracked in exactly
\* one of gpu_models and offloaded_models.
C38_ModelTrackingConserved ==
  mm_pc # "exited" =>
    \A m \in Models : (m \in gpu_models) # (m \in offloaded_models)

(* ======================= the monitor, sampling for ever =============== *)

\* the usage samples, two of them below the restoration threshold
SampledUsage == Usage \cup {40}

\* the monitor thread with a restoration in which every model.cuda()
\* succeeds; the usage _restore_models_to_gpu reads is the usage of the
\* sample just taken (nothing is freed between the two readings)
MonitorRestoring ==
  /\ \/ \E u \in SampledUsage, u2 \in SampledUsage :
          /\ Classify(u) = "normal" => u2 = u
          /\ SampleLogged(u, u2)
     \/ \E bad \in SUBSET Models, u3 \in SampledUsage : OffloadLogged(bad, u3)
     \/ RestoreLogged(offloaded_models)
  /\ UNCHANGED <<seg_vars, callback_ran_vad, cap_vars, inj_vars, life_vars,
                 left_behind, cuda_seen, cuda_ret, obs2_vars>>

\* _monitoring_loop samples every check_interval seconds for as long as the
\* manager runs
SpecSampling ==
  InitMem /\ [][MonitorRestoring]_vars /\ WF_vars(MonitorRestoring)

(* ======================= claims: restoration ========================== *)

\* C39: if from some point on every sample is below the restoration
\* threshold, then eventually no model is left offloaded.
C39_OffloadIsNotPermanent ==
  <>[](last_usage < RestoreThreshold) => <>[](offloaded_models = {})

(* ======================= MetricsBroadcaster =========================== *)
(* One listener, the accept thread that serves it, and the daemon's calls  *)
(* of start_session and add_transcription, statement by statement where   *)
(* another thread can come in between.                                     *)

MaxTranscriptions == 3
MaxSessions == 2

bc_frame == <<daemon_vars, mem_vars, delta_vars, seg_vars, callback_ran_vad,
              cap_vars, inj_vars, life_vars, left_behind, mm_log, cuda_seen,
              cuda_ret, classified, obs3_vars>>

NoEvent == [type |-> "none", session |-> 0, n |-> 0]
TranscriptionEvent(seg) ==
  [type |-> "transcription", session |-> seg.session, n |-> seg.n]

\* broadcast(): sendall to every client in self.clients, under clients_lock
SentTo(event) == IF clients THEN Append(received, event) ELSE received

\* start_session, line 74: the buffer attribute is bound to a new empty list;
\* a catch-up loop that is iterating goes on with the old list
StartSessionClear ==
  /\ bc_call.pc = "idle"
  /\ session_id < MaxSessions
  /\ session_id' = session_id + 1
  /\ transcription_buffer' = <<>>
  /\ replay' = IF acc_pc = "replay" /\ replay.live
               THEN [replay EXCEPT !.live = FALSE,
                                   !.old = transcription_buffer]
               ELSE replay
  /\ bc_call' = [pc |-> "broadcast",
                 event |-> [type |-> "session_start",
                            session |-> session_id + 1, n |-> 0]]
  /\ UNCHANGED <<bc_frame, clients, received, acc_pc, nadded>>

\* add_transcription, line 116: the segment is appended to the buffer
AddTranscriptionAppend ==
  /\ bc_call.pc = "idle"
  /\ nadded < MaxTranscriptions
  /\ nadded' = nadded + 1
  /\ LET seg == [session |-> session_id, n |-> nadded + 1]
     IN /\ transcription_buffer' = Append(transcription_buffer, seg)
        /\ bc_call' = [pc |-> "broadcast", event |-> TranscriptionEvent(seg)]
  /\ UNCHANGED <<bc_frame, clients, received, acc_pc, replay, session_id>>

\* start_session line 77 / add_transcription line 119: self.broadcast(...)
Broadcast ==
  /\ bc_call.pc = "broadcast"
  /\ received' = SentTo(bc_call.event)
  /\ bc_call' = [pc |-> "idle", event |-> NoEvent]
  /\ UNCHANGED <<bc_frame, transcription_buffer, clients, acc_pc, replay,
                 session_id, nadded>>

\* _accept_clients, lines 188-190: the listener connects and is added
AcceptClient ==
  /\ acc_pc = "accept"
  /\ ~clients
  /\ clients' = TRUE
  /\ acc_pc' = "check"
  /\ UNCHANGED <<bc_frame, transcription_buffer, received, replay, bc_call,
                 session_id, nadded>>

\* _accept_clients, lines 194-195: `if self.transcription_buffer:` and the
\* iterator over that list
ReplayCheck ==
  /\ acc_pc = "check"
  /\ IF transcription_buffer # <<>>
     THEN /\ acc_pc' = "replay"
          /\ replay' = [live |-> TRUE, old |-> <<>>, idx |-> 1]
     ELSE /\ acc_pc' = "done"
          /\ UNCHANGED replay
  /\ UNCHANGED <<bc_frame, transcription_buffer, clients, received, bc_call,
                 session_id, nadded>>

\* the list object the catch-up loop iterates
ReplayList == IF replay.live THEN transcription_buffer ELSE replay.old

\* _accept_clients, lines 195-201: one round of the catch-up loop
ReplayNext ==
  /\ acc_pc = "replay"
  /\ IF replay.idx <= Len(ReplayList)
     THEN /\ received' =
               Append(received, TranscriptionEvent(ReplayList[replay.idx]))
          /\ replay' = [replay EXCEPT !.idx = replay.idx + 1]
          /\ UNCHANGED acc_pc
     ELSE /\ acc_pc' = "done"
          /\ UNCHANGED <<received, replay>>
  /\ UNCHANGED <<bc_frame, transcription_buffer, clients, bc_call,
                 session_id, nadded>>

NextBroadcast ==
  \/ StartSessionClear \/ AddTranscriptionAppend \/ Broadcast
  \/ AcceptClient \/ ReplayCheck \/ ReplayNext
SpecBroadcast == Init /\ [][NextBroadcast]_vars

(* ======================= claims: the late listener ==================== *)

\* the transcription events of the current session the listener was sent
ReceivedOfSession ==
  LET Mine(e) == e.type = "transcription" /\ e.session = session_id
  IN SelectSeq(received, Mine)

\* C40: once the listener's catch-up has ended and no call is under way, the
\* transcription events of the current session it was sent are the
\* transcriptions added in that session, each once, in the order added.
C40_ListenerSeesSessionOnce ==
  (clients /\ acc_pc = "done" /\ bc_call.pc = "idle") =>
    ReceivedOfSession =
      [i \in 1..Len(transcription_buffer) |->
         TranscriptionEvent(transcription_buffer[i])]

====
